---------------------------- MODULE Spec2Model ----------------------------
(***************************************************************************)
(* Model of the remote page store of stackblaze/server:                    *)
(*   - the Go Page Server (page-server/main.go): handleGetPage,           *)
(*     handleStreamWAL, handlePing over the maps `pages`, `walRecords`;    *)
(*   - the InnoDB client (page_server/page_server_client.cc):             *)
(*     PageServerClient::init/shutdown/is_enabled/get_page/stream_wal/     *)
(*     get_pages_batch/ping over http_request and one cached socket.       *)
(* Two specifications share the variables:                                 *)
(*   SpecServer - the server's handlers, step by step, for requests of     *)
(*                arbitrary HTTP clients on concurrent connections;        *)
(*   Spec       - the client's threads, the network and the server (its    *)
(*                handler run at the moment a request is delivered).       *)
(***************************************************************************)
EXTENDS Integers, Sequences, FiniteSets, TLC

(***************************************************************************)
(* Bounds of the model.                                                    *)
(***************************************************************************)
\* WAL records the server stores before StreamWAL requests stop arriving
MaxWal == 2
\* API calls (get_page, stream_wal, get_pages_batch, ping) started in a run
MaxCalls == 2
\* requests in one get_pages_batch call
MaxBatch == 2
\* descriptors of the client process available for sockets
MaxFd == 2
\* bytes of a page (srv_page_size) in the model
PageSize == 4

(***************************************************************************)
(* Program constants.                                                      *)
(***************************************************************************)
MAX_RETRIES == 2
\* microseconds of the first backoff sleep: usleep(100000 * (1 << retry))
BackoffBase == 100000
StatusOK == 200
StatusBadRequest == 400
StatusNotFound == 404
StatusMethodNotAllowed == 405

\* values of dberr_t the client returns
DB_SUCCESS == "DB_SUCCESS"
DB_ERROR == "DB_ERROR"

(***************************************************************************)
(* Small input sets.                                                       *)
(***************************************************************************)
SpaceIds == {1}
PageNos == {42, 43}
Lsns == {0, 5}
\* binary payloads (bytes 0..255) a caller streams
WalPayloads == {<<>>, <<72>>, <<72, 105>>, <<72, 105, 33>>}

None == "none"

(***************************************************************************)
(* base64 text is a sequence of symbols: 0..63 are the characters of the   *)
(* standard alphabet, Pad is '='.                                          *)
(***************************************************************************)
Pad == 64

Shr(x, n) == x \div (2 ^ n)
Low6(x) == x % 64

\* Go: base64.StdEncoding.EncodeToString
RECURSIVE StdEncode(_)
StdEncode(data) ==
  IF Len(data) = 0 THEN <<>>
  ELSE IF Len(data) = 1 THEN
         <<Shr(data[1], 2), Low6(data[1] * 16), Pad, Pad>>
  ELSE IF Len(data) = 2 THEN
         <<Shr(data[1], 2), Low6(data[1] * 16 + Shr(data[2], 4)),
           Low6(data[2] * 4), Pad>>
  ELSE <<Shr(data[1], 2), Low6(data[1] * 16 + Shr(data[2], 4)),
         Low6(data[2] * 4 + Shr(data[3], 6)), Low6(data[3])>>
       \o StdEncode(SubSeq(data, 4, Len(data)))

\* Go: base64.StdEncoding.DecodeString accepts exactly the canonical,
\* padded encodings; the result is [ok, data].
StdDecodable(text) ==
  /\ Len(text) % 4 = 0
  /\ \A i \in 1..Len(text) :
       \/ text[i] \in 0..63
       \/ /\ text[i] = Pad
          /\ i > Len(text) - 2
          /\ \A j \in i..Len(text) : text[j] = Pad
  /\ Len(text) > 0 /\ text[Len(text)] = Pad /\ text[Len(text) - 1] = Pad
       => text[Len(text) - 2] % 16 = 0
  /\ Len(text) > 0 /\ text[Len(text)] = Pad /\ text[Len(text) - 1] # Pad
       => text[Len(text) - 1] % 4 = 0

RECURSIVE StdDecodeGroups(_)
StdDecodeGroups(text) ==
  IF Len(text) = 0 THEN <<>>
  ELSE LET a == text[1]
           b == text[2]
           c == text[3]
           d == text[4]
           rest == StdDecodeGroups(SubSeq(text, 5, Len(text)))
       IN IF c = Pad THEN <<a * 4 + Shr(b, 4)>>
          ELSE IF d = Pad
                 THEN <<a * 4 + Shr(b, 4), (b % 16) * 16 + Shr(c, 2)>>
          ELSE <<a * 4 + Shr(b, 4), (b % 16) * 16 + Shr(c, 2),
                 (c % 4) * 64 + d>> \o rest

StdDecode(text) ==
  IF StdDecodable(text)
    THEN [ok |-> TRUE, data |-> StdDecodeGroups(text)]
    ELSE [ok |-> FALSE, data |-> <<>>]

(***************************************************************************)
(* JSON objects are functions from member names to values; a member that   *)
(* `omitempty` drops is absent from the domain.                            *)
(***************************************************************************)
Has(obj, name) == name \in DOMAIN obj
Member(obj, name, zero) == IF Has(obj, name) THEN obj[name] ELSE zero
Keep(obj, names) == [n \in names |-> obj[n]]

\* GetPageResponse whose page_lsn member lacks omitempty
EncodeGetPageResponse_page_lsn_kept(status, pageData, pageLSN, error) ==
  Keep([status |-> status, page_data |-> pageData, page_lsn |-> pageLSN,
        error |-> error],
       {"status", "page_lsn"}
         \cup (IF pageData # <<>> THEN {"page_data"} ELSE {})
         \cup (IF error # <<>> THEN {"error"} ELSE {}))

\* json.NewEncoder(w).Encode(GetPageResponse{...}) with omitempty members
EncodeGetPageResponse(status, pageData, pageLSN, error) ==
  Keep([status |-> status, page_data |-> pageData, page_lsn |-> pageLSN,
        error |-> error],
       {"status"}
         \cup (IF pageData # <<>> THEN {"page_data"} ELSE {})
         \cup (IF pageLSN # 0 THEN {"page_lsn"} ELSE {})
         \cup (IF error # <<>> THEN {"error"} ELSE {}))

\* json.NewEncoder(w).Encode(StreamWALResponse{...})
EncodeStreamWALResponse(status, lastApplied) ==
  Keep([status |-> status, last_applied_lsn |-> lastApplied],
       {"status"} \cup (IF lastApplied # 0 THEN {"last_applied_lsn"} ELSE {}))

\* json.NewEncoder(w).Encode(PingResponse{...})
EncodePingResponse == [status |-> "ok", version |-> "1.0.0"]

\* an HTTP response: status code, whether the body is JSON, the body
JsonResponse(code, obj) == [code |-> code, json |-> TRUE, body |-> obj]
\* http.Error(w, msg, code): a text/plain body
HttpError(code, msg) == [code |-> code, json |-> FALSE, body |-> [text |-> msg]]
NoResp == [code |-> 0, json |-> FALSE, body |-> [text |-> ""]]

\* an HTTP request: method, path, and the body (json = FALSE: not JSON)
Request(method, path, body) == [method |-> method, path |-> path, body |-> body]
BadBody == [json |-> FALSE]
NoReq == Request(None, None, BadBody)

(***************************************************************************)
(* The Page Server (page-server/main.go).                                  *)
(***************************************************************************)
VARIABLES
  pages,        \* PageServer.pages: key -> page image
  walRecords,   \* PageServer.walRecords: sequence of WALRecord
  muReaders,    \* connections holding PageServer.mu for reading
  walMuOwner,   \* connection holding PageServer.walMu, or None
  srv           \* per server connection: the request being handled

srvVars == <<pages, walRecords, muReaders, walMuOwner, srv>>

SrvConns == {"c1", "c2"}

\* fmt.Sprintf("%d:%d", req.SpaceID, req.PageNo)
PageKey(space_id, page_no) == <<space_id, ":", page_no>>

\* json.NewDecoder(r.Body).Decode(&req) into GetPageRequest: absent members
\* keep their zero value
DecodeGetPageRequest(body) ==
  [ok |-> body.json,
   SpaceID |-> Member(body, "space_id", 0),
   PageNo |-> Member(body, "page_no", 0),
   LSN |-> Member(body, "lsn", 0)]

\* json.NewDecoder(r.Body).Decode(&req) into StreamWALRequest
DecodeStreamWALRequest(body) ==
  [ok |-> body.json,
   LSN |-> Member(body, "lsn", 0),
   WALData |-> Member(body, "wal_data", <<>>),
   SpaceID |-> Member(body, "space_id", 0),
   PageNo |-> Member(body, "page_no", 0)]

WALRecord(lsn, walData, space_id, page_no) ==
  [LSN |-> lsn, WALData |-> walData, SpaceID |-> space_id, PageNo |-> page_no]

\* handleGetPage before it takes the lock: the response that rejects the
\* request, or NoResp when the request goes on to the page map
GetPageReject(req) ==
  IF req.method # "POST"
    THEN HttpError(StatusMethodNotAllowed, "Method not allowed")
  ELSE IF ~DecodeGetPageRequest(req.body).ok
    THEN HttpError(StatusBadRequest, "Invalid JSON")
  ELSE NoResp

\* handleGetPage answering a missing page with a zero-filled image
GetPageAnswer_zero_filled(req, exists, pageData) ==
  LET r == DecodeGetPageRequest(req.body) IN
  JsonResponse(StatusOK,
    EncodeGetPageResponse("success",
      StdEncode(IF exists THEN pageData ELSE [i \in 1..PageSize |-> 0]),
      r.LSN, <<>>))

\* handleGetPage after the lookup `pageData, exists := s.pages[key]`
GetPageAnswer(req, exists, pageData) ==
  LET r == DecodeGetPageRequest(req.body) IN
  IF ~exists
    THEN JsonResponse(StatusNotFound,
           EncodeGetPageResponse("error", <<>>, 0,
             <<"Page not found", r.SpaceID, r.PageNo>>))
    ELSE JsonResponse(StatusOK,
           EncodeGetPageResponse("success", StdEncode(pageData), r.LSN, <<>>))

\* handleGetPage as a whole, on the page map pgs
handleGetPage(pgs, req) ==
  IF GetPageReject(req) # NoResp THEN GetPageReject(req)
  ELSE LET r == DecodeGetPageRequest(req.body)
           key == PageKey(r.SpaceID, r.PageNo)
           exists == key \in DOMAIN pgs
       IN GetPageAnswer(req, exists, IF exists THEN pgs[key] ELSE <<>>)

\* handleStreamWAL that stores wal_data without decoding it
StreamWALReject_base64_unchecked(req) ==
  IF req.method # "POST"
    THEN HttpError(StatusMethodNotAllowed, "Method not allowed")
  ELSE IF ~DecodeStreamWALRequest(req.body).ok
    THEN HttpError(StatusBadRequest, "Invalid JSON")
  ELSE NoResp

\* handleStreamWAL before it takes the lock
StreamWALReject(req) ==
  IF req.method # "POST"
    THEN HttpError(StatusMethodNotAllowed, "Method not allowed")
  ELSE IF ~DecodeStreamWALRequest(req.body).ok
    THEN HttpError(StatusBadRequest, "Invalid JSON")
  ELSE IF ~StdDecode(DecodeStreamWALRequest(req.body).WALData).ok
    THEN HttpError(StatusBadRequest, "Invalid base64 WAL data")
  ELSE NoResp

\* the record handleStreamWAL appends
StreamWALRecord(req) ==
  LET r == DecodeStreamWALRequest(req.body) IN
  WALRecord(r.LSN, StdDecode(r.WALData).data, r.SpaceID, r.PageNo)

\* the response handleStreamWAL sends after the append
StreamWALAnswer(req) ==
  JsonResponse(StatusOK,
    EncodeStreamWALResponse("success", DecodeStreamWALRequest(req.body).LSN))

\* handlePing as a whole
handlePing(req) ==
  IF req.method # "GET"
    THEN HttpError(StatusMethodNotAllowed, "Method not allowed")
    ELSE JsonResponse(StatusOK, EncodePingResponse)

\* a connection the server is not handling a request on; exists and pageData
\* are the locals of handleGetPage
IdleConn ==
  [pc |-> "idle", req |-> NoReq, resp |-> NoResp, exists |-> FALSE,
   pageData |-> <<>>]

\* NewPageServer()
NewPageServer ==
  /\ pages = <<>>
  /\ walRecords = <<>>
  /\ muReaders = {}
  /\ walMuOwner = None
  /\ srv = [c \in SrvConns |-> IdleConn]

(***************************************************************************)
(* The client (page_server/page_server_client.cc).                         *)
(***************************************************************************)
VARIABLES
  page_server_enabled,      \* std::atomic<bool>
  page_server_initialized,  \* std::atomic<bool>
  page_server_address,      \* None (nullptr) or the configured address
  page_server_host,         \* None (nullptr) or the parsed host
  page_server_socket,       \* -1 or the cached descriptor
  page_server_mutex,        \* [state, owner]
  fdState,                  \* descriptor -> "closed" | "open"
  inbuf,                    \* descriptor -> responses received, not yet read
  th,                       \* per thread: position and locals of its call
  life,                     \* init/shutdown lifecycle and what init was given
  calls,                    \* API calls started so far
  crashed                   \* the process met undefined behaviour and died

cliVars == <<page_server_enabled, page_server_initialized, page_server_address,
             page_server_host, page_server_socket, page_server_mutex, fdState,
             inbuf, th, life, calls, crashed>>

vars == <<pages, walRecords, muReaders, walMuOwner, srv,
          page_server_enabled, page_server_initialized, page_server_address,
          page_server_host, page_server_socket, page_server_mutex, fdState,
          inbuf, th, life, calls, crashed>>

Threads == {"main", "t1"}
Fds == 1..MaxFd
Address == "localhost:8080"
Host == "localhost"

\* what callers of the client pass
ClientKeys == {<<1, 42>>}
ClientLsns == {5}
ClientWal == {<<72, 105>>}

(***************************************************************************)
(* base64 of the client.                                                   *)
(***************************************************************************)
\* base64_encode(data, len, out, out_len): the text left in out
RECURSIVE base64_encode_from(_, _, _, _)
base64_encode_from(data, i, out, out_len) ==
  IF ~(i < Len(data) /\ Len(out) + 4 < out_len) THEN out
  ELSE LET len == Len(data)
           b == data[i + 1] * 65536
                + (IF i + 1 < len THEN data[i + 2] ELSE 0) * 256
                + (IF i + 2 < len THEN data[i + 3] ELSE 0)
       IN base64_encode_from(data, i + 3,
            out \o <<Low6(Shr(b, 18)), Low6(Shr(b, 12)),
                     IF i + 1 < len THEN Low6(Shr(b, 6)) ELSE Pad,
                     IF i + 2 < len THEN Low6(b) ELSE Pad>>,
            out_len)

base64_encode(data, out_len) == base64_encode_from(data, 0, <<>>, out_len)

\* base64_decode(in, out, out_len): the bytes written to out (j of them)
RECURSIVE base64_decode_from(_, _, _, _, _, _)
base64_decode_from(in, i, out, val, pad, out_len) ==
  IF ~(i < Len(in) /\ Len(out) < out_len) THEN out
  ELSE LET c == in[i + 1] IN
    IF c = Pad THEN base64_decode_from(in, i + 1, out, val, pad + 1, out_len)
    ELSE IF c \notin 0..63
      THEN base64_decode_from(in, i + 1, out, val, pad, out_len)
    ELSE LET \* val = (val << 6) | idx in a uint32_t: only the low 24 bits
             \* of val ever reach out, so they are what is kept
             v == (val % (2 ^ 18)) * 64 + c
             o1 == IF Len(out) < out_len
                     THEN Append(out, Shr(v, 16) % 256) ELSE out
             o2 == IF Len(o1) < out_len /\ pad < 2
                     THEN Append(o1, Shr(v, 8) % 256) ELSE o1
             o3 == IF Len(o2) < out_len /\ pad < 1
                     THEN Append(o2, v % 256) ELSE o2
         IN IF (i + 1) % 4 = 0
              THEN base64_decode_from(in, i + 1, o3, 0, pad, out_len)
              ELSE base64_decode_from(in, i + 1, out, v, pad, out_len)

base64_decode(in, out_len) == base64_decode_from(in, 0, <<>>, 0, 0, out_len)

(***************************************************************************)
(* Requests the client builds.                                             *)
(***************************************************************************)
\* rpc_get_page: the request body and the call of http_request
GetPageRequest(space_id, page_no, lsn) ==
  Request("POST", "/api/v1/get_page",
          [json |-> TRUE, space_id |-> space_id, page_no |-> page_no,
           lsn |-> lsn])

\* rpc_stream_wal: the encoded payload, the request body
StreamWALRequest(lsn, wal_data) ==
  Request("POST", "/api/v1/stream_wal",
          [json |-> TRUE, lsn |-> lsn,
           wal_data |-> base64_encode(wal_data,
                          ((Len(wal_data) + 2) \div 3) * 4 + 1)])

\* ping: GET with no body
PingRequest == Request("GET", "/api/v1/ping", BadBody)

\* main(): http.HandleFunc routes by path; a StreamWAL request appends
Route(pgs, req) ==
  IF req.path = "/api/v1/get_page" THEN handleGetPage(pgs, req)
  ELSE IF req.path = "/api/v1/stream_wal"
    THEN (IF StreamWALReject(req) # NoResp THEN StreamWALReject(req)
          ELSE StreamWALAnswer(req))
  ELSE handlePing(req)

RouteAppends(req) ==
  req.path = "/api/v1/stream_wal" /\ StreamWALReject(req) = NoResp

(***************************************************************************)
(* Thread state.                                                           *)
(***************************************************************************)
Garbage == "uninitialized"

\* pc, the call and its arguments, the locals of http_request (sockfd,
\* reconnect, retry), what the call has produced (resp, err, ret, buf,
\* page_lsn, results) and, for the properties, what happened to it:
\* attempts (loop iterations of http_request), sawEnabled (the value of its
\* is_enabled() test), cached (http_request started on the cached
\* connection), netfail (the network failed a connect of this
\* http_request, or a send or receive on a connection it made itself) and
\* slept (the microseconds its http_request has spent in usleep)
IdleThread ==
  [pc |-> "idle", op |-> None, args |-> <<>>,
   sockfd |-> -1, reconnect |-> FALSE, retry |-> 0,
   attempts |-> 0, resp |-> NoResp, err |-> None, ret |-> None,
   buf |-> <<>>, page_lsn |-> None, bi |-> 0, succ |-> 0, results |-> <<>>,
   sawEnabled |-> FALSE, locked |-> FALSE, cached |-> FALSE,
   netfail |-> FALSE, slept |-> 0]

Running(t, p) == ~crashed /\ th[t].pc = p
\* the thread is not inside a call: it never made one, or its last returned
Idle(t) == ~crashed /\ th[t].pc \in {"idle", "done"}
Set(t, r) == th' = [th EXCEPT ![t] = r]

flags == <<page_server_enabled, page_server_initialized>>
addr == <<page_server_address, page_server_host>>
net == <<fdState, inbuf>>

\* PageServerClient::is_enabled
is_enabled == page_server_enabled /\ page_server_initialized

InHttpRequest(t) ==
  th[t].pc \in {"hr_entry", "hr_connect", "hr_store", "hr_send", "hr_recv"}

\* the request the thread's http_request sends
CurrentRequest(r) ==
  IF r.op \in {"ping", "init"} THEN PingRequest
  ELSE IF r.op = "stream_wal"
    THEN StreamWALRequest(r.args.lsn, r.args.wal_data)
  ELSE IF r.op = "get_page"
    THEN GetPageRequest(r.args.space_id, r.args.page_no, r.args.lsn)
  ELSE LET q == r.args.requests[r.bi + 1]
       IN GetPageRequest(q.space_id, q.page_no, q.lsn)

\* rpc_get_page storing *page_lsn before it tests decoded_len
ParseGetPage_lsn_before_check(resp, lsn, page_size, buf, page_lsn) ==
  LET json == resp.body
      unchanged == [err |-> DB_ERROR, buf |-> buf, page_lsn |-> page_lsn]
  IN IF ~Has(json, "status") THEN unchanged
     ELSE IF json["status"] # "success" THEN unchanged
     ELSE IF ~Has(json, "page_data") THEN unchanged
     ELSE LET decoded == base64_decode(json["page_data"], page_size)
              written == decoded \o SubSeq(buf, Len(decoded) + 1, Len(buf))
              stored == Member(json, "page_lsn", lsn)
          IN IF Len(decoded) = 0 \/ Len(decoded) > page_size
               THEN [err |-> DB_ERROR, buf |-> written, page_lsn |-> stored]
               ELSE [err |-> DB_SUCCESS, buf |-> written, page_lsn |-> stored]

\* rpc_get_page after http_request returned DB_SUCCESS with response resp:
\* [err, buf, page_lsn], buf and page_lsn being what the call wrote
ParseGetPage(resp, lsn, page_size, buf, page_lsn) ==
  LET json == resp.body
      unchanged == [err |-> DB_ERROR, buf |-> buf, page_lsn |-> page_lsn]
  IN IF ~Has(json, "status") THEN unchanged
     ELSE IF json["status"] # "success" THEN unchanged
     ELSE IF ~Has(json, "page_data") THEN unchanged
     ELSE LET decoded == base64_decode(json["page_data"], page_size)
              written == decoded \o SubSeq(buf, Len(decoded) + 1, Len(buf))
          IN IF Len(decoded) = 0 \/ Len(decoded) > page_size
               THEN [err |-> DB_ERROR, buf |-> written, page_lsn |-> page_lsn]
               ELSE [err |-> DB_SUCCESS, buf |-> written,
                     page_lsn |-> Member(json, "page_lsn", lsn)]

\* the first step of a loop iteration of http_request
AttemptPc(r) ==
  IF r.reconnect \/ r.sockfd < 0
    THEN "hr_connect"
    ELSE "hr_send"

\* http_request up to its loop: int sockfd = page_server_socket;
\* reconnect = sockfd < 0 || !page_server_host
Entered(r0) ==
  LET r == [r0 EXCEPT !.sockfd = page_server_socket,
                      !.reconnect = (page_server_socket < 0
                                     \/ page_server_host = None),
                      !.retry = 0, !.attempts = 1, !.resp = NoResp,
                      !.netfail = FALSE, !.slept = 0,
                      !.cached = ~(page_server_socket < 0
                                   \/ page_server_host = None)]
  IN [r EXCEPT !.pc = AttemptPc(r)]

\* http_request returns err to its caller, which runs up to its next access
\* to shared state: rpc_get_page parses, get_pages_batch goes to the next
\* request, ping and init compare
Finished(r0, err) ==
  LET r == [r0 EXCEPT !.err = err, !.sockfd = -1, !.reconnect = FALSE,
                      !.retry = 0, !.cached = FALSE] IN
  IF r.op = "ping"
    THEN [r EXCEPT !.pc = "done", !.ret = (err = DB_SUCCESS)]
  ELSE IF r.op = "init"
    THEN [r EXCEPT !.pc = IF err = DB_SUCCESS THEN "init_ok" ELSE "init_fail"]
  ELSE IF r.op = "stream_wal"
    THEN [r EXCEPT !.pc = "unlock", !.ret = err]
  ELSE IF r.op = "get_page"
    THEN LET p == IF err = DB_SUCCESS
                    THEN ParseGetPage(r.resp, r.args.lsn, r.args.page_size,
                                      r.buf, r.page_lsn)
                    ELSE [err |-> err, buf |-> r.buf, page_lsn |-> r.page_lsn]
         IN [r EXCEPT !.pc = "unlock", !.ret = p.err, !.buf = p.buf,
                      !.page_lsn = p.page_lsn]
  ELSE \* get_pages_batch: results[i] of the loop, then i++
    LET q == r.args.requests[r.bi + 1]
        p == IF err = DB_SUCCESS
               THEN ParseGetPage(r.resp, q.lsn, r.args.page_size, <<>>, Garbage)
               ELSE [err |-> err, buf |-> <<>>, page_lsn |-> Garbage]
        res == Append(r.results, [err |-> p.err, page_lsn |-> p.page_lsn])
        n == r.succ + (IF p.err = DB_SUCCESS THEN 1 ELSE 0)
    IN IF r.bi + 1 < r.args.num_reqs
         THEN [r EXCEPT !.pc = "hr_entry", !.bi = r.bi + 1, !.succ = n,
                        !.results = res]
         ELSE [r EXCEPT !.pc = "unlock", !.bi = r.bi + 1, !.succ = n,
                        !.results = res, !.ret = n]

\* http_request whose loop `continue`s without counting the attempt
AfterFail_retry_not_counted(r) ==
  [r EXCEPT !.attempts = r.attempts + 1, !.reconnect = TRUE,
            !.pc = "hr_connect"]

\* http_request backing off after every failed attempt, the last included
AfterFail_sleeps_after_last(r) ==
  LET s == [r EXCEPT !.slept = r.slept + BackoffBase * (2 ^ r.retry)] IN
  IF r.retry < MAX_RETRIES
    THEN [s EXCEPT !.retry = r.retry + 1, !.attempts = r.attempts + 1,
                   !.reconnect = TRUE,
                   !.pc = "hr_connect"]
    ELSE Finished([s EXCEPT !.reconnect = TRUE], DB_ERROR)

\* http_request after a failed attempt (connect, send, receive or a response
\* that is not 200): usleep(100000 * (1 << retry)) and the next iteration,
\* or DB_ERROR after the last one
AfterFail(r) ==
  IF r.retry < MAX_RETRIES
    THEN [r EXCEPT !.retry = r.retry + 1, !.attempts = r.attempts + 1,
                   !.reconnect = TRUE,
                   !.slept = r.slept + BackoffBase * (2 ^ r.retry),
                   !.pc = "hr_connect"]
    ELSE Finished([r EXCEPT !.reconnect = TRUE], DB_ERROR)

\* the network fails the thread's connect, send or receive; a connection
\* used with reconnect set was made by this http_request
Faulted(r) ==
  [r EXCEPT !.netfail = r.netfail \/ r.reconnect \/ r.pc = "hr_connect"]

FreeFds == {fd \in Fds : fdState[fd] = "closed"}
LowestFree == CHOOSE fd \in FreeFds : \A g \in FreeFds : fd <= g

(***************************************************************************)
(* The steps of http_request, by thread t.                                 *)
(***************************************************************************)
\* the entry of http_request called by ping(), by init's ping() and by the
\* next rpc_get_page of a batch
http_request(t) ==
  /\ Running(t, "hr_entry")
  /\ Set(t, Entered(th[t]))
  /\ UNCHANGED <<srvVars, flags, addr, page_server_socket, page_server_mutex,
                 net, life, calls, crashed>>

\* if (sockfd >= 0) close(sockfd);
\* sockfd = http_connect(page_server_host, page_server_port);
http_connect(t) ==
  /\ Running(t, "hr_connect")
  /\ LET old == th[t].sockfd
         closedFds == IF old >= 0 THEN [fdState EXCEPT ![old] = "closed"]
                      ELSE fdState
         closedBuf == IF old >= 0 THEN [inbuf EXCEPT ![old] = <<>>] ELSE inbuf
         free == {fd \in Fds : closedFds[fd] = "closed"}
         new == CHOOSE fd \in free : \A g \in free : fd <= g
     IN \/ \* gethostbyname(nullptr): undefined; it fails or the process dies
           /\ page_server_host = None
           /\ \/ /\ Set(t, AfterFail([th[t] EXCEPT !.sockfd = -1]))
                 /\ fdState' = closedFds /\ inbuf' = closedBuf
                 /\ UNCHANGED crashed
              \/ /\ crashed' = TRUE
                 /\ UNCHANGED <<th, net>>
           /\ UNCHANGED page_server_socket
        \/ \* the server accepts: the lowest free descriptor is the connection
           /\ page_server_host # None /\ free # {}
           /\ fdState' = [closedFds EXCEPT ![new] = "open"]
           /\ inbuf' = [closedBuf EXCEPT ![new] = <<>>]
           /\ Set(t, [th[t] EXCEPT !.sockfd = new, !.pc = "hr_store"])
           /\ UNCHANGED <<page_server_socket, crashed>>
        \/ \* the server is unreachable: close(sockfd); return -1
           /\ page_server_host # None
           /\ fdState' = closedFds /\ inbuf' = closedBuf
           /\ Set(t, AfterFail([Faulted(th[t]) EXCEPT !.sockfd = -1]))
           /\ UNCHANGED <<page_server_socket, crashed>>
  /\ UNCHANGED <<srvVars, flags, addr, page_server_mutex, life, calls>>

\* page_server_socket = sockfd; after http_connect has returned
http_store(t) ==
  /\ Running(t, "hr_store")
  /\ page_server_socket' = th[t].sockfd
  /\ Set(t, [th[t] EXCEPT !.pc = "hr_send"])
  /\ UNCHANGED <<srvVars, flags, addr, page_server_mutex, net, life, calls,
                 crashed>>

\* send(sockfd, request, len, 0): when the request reaches the server, the
\* server handles it and its response is queued on the connection
http_send(t) ==
  /\ Running(t, "hr_send")
  /\ LET fd == th[t].sockfd
         req == CurrentRequest(th[t])
     IN \/ /\ fdState[fd] = "open"
           /\ inbuf' = [inbuf EXCEPT ![fd] = Append(@, Route(pages, req))]
           /\ walRecords' = IF RouteAppends(req)
                              THEN Append(walRecords, StreamWALRecord(req))
                              ELSE walRecords
           /\ Set(t, [th[t] EXCEPT !.pc = "hr_recv"])
        \/ \* the peer is gone but the kernel still takes the bytes
           /\ fdState[fd] = "open"
           /\ Set(t, [Faulted(th[t]) EXCEPT !.pc = "hr_recv"])
           /\ UNCHANGED <<inbuf, walRecords>>
        \/ \* send() < 0 on a broken connection
           /\ fdState[fd] = "open"
           /\ Set(t, AfterFail(Faulted(th[t])))
           /\ UNCHANGED <<inbuf, walRecords>>
        \/ \* send() < 0 on a descriptor that was closed
           /\ fdState[fd] = "closed"
           /\ Set(t, AfterFail(th[t]))
           /\ UNCHANGED <<inbuf, walRecords>>
  /\ UNCHANGED <<pages, muReaders, walMuOwner, srv, flags, addr,
                 page_server_socket, page_server_mutex, fdState, life, calls,
                 crashed>>

\* what a recv leaves in the connection when it returns a response up to
\* the end of its headers: the body, bytes without a status line
BodyOf(resp) == [rest |-> resp.body]
IsLeftover(item) == "rest" \in DOMAIN item
\* the response buffer after such a recv: the status line and the headers
HeaderOf(resp) == [code |-> resp.code, json |-> FALSE, body |-> [text |-> ""]]

\* http_request returning DB_ERROR at once when the server answers 404
Received_returns_on_404(r) ==
  IF r.resp.code = StatusOK THEN Finished(r, DB_SUCCESS)
  ELSE IF r.resp.code = StatusNotFound THEN Finished(r, DB_ERROR)
  ELSE AfterFail(r)

\* after the recv loop: if (total > 0 && strstr(response, "HTTP/1.1 200"))
\* return DB_SUCCESS; otherwise the attempt has failed
Received(r) ==
  IF r.resp.code = StatusOK THEN Finished(r, DB_SUCCESS) ELSE AfterFail(r)

\* the recv loop and the check for "HTTP/1.1 200", each response arriving
\* in one recv
http_recv(t) ==
  /\ Running(t, "hr_recv")
  /\ LET fd == th[t].sockfd
     IN \/ \* a response is read
           /\ inbuf[fd] # <<>> /\ ~IsLeftover(Head(inbuf[fd]))
           /\ inbuf' = [inbuf EXCEPT ![fd] = Tail(@)]
           /\ Set(t, Received([th[t] EXCEPT !.resp = Head(inbuf[fd])]))
        \/ \* n <= 0 though the server answered: the connection broke or
           \* SO_RCVTIMEO expired before the response arrived
           /\ inbuf[fd] # <<>>
           /\ Set(t, AfterFail(Faulted(th[t])))
           /\ UNCHANGED inbuf
        \/ \* n <= 0: nothing to read on the descriptor
           /\ inbuf[fd] = <<>>
           /\ Set(t, AfterFail(th[t]))
           /\ UNCHANGED inbuf
  /\ UNCHANGED <<srvVars, flags, addr, page_server_socket, page_server_mutex,
                 fdState, life, calls, crashed>>

\* the same loop when a response arrives in two segments, its headers and
\* then its body: the loop breaks at the first "\r\n\r\n" it sees
http_recv_segmented(t) ==
  /\ Running(t, "hr_recv")
  /\ LET fd == th[t].sockfd
     IN \/ \* the first recv returns the response up to "\r\n\r\n": the loop
           \* breaks and the body stays in the connection
           /\ inbuf[fd] # <<>> /\ ~IsLeftover(Head(inbuf[fd]))
           /\ inbuf' = [inbuf EXCEPT ![fd] = <<BodyOf(Head(@))>> \o Tail(@)]
           /\ Set(t, Received([th[t] EXCEPT
                                 !.resp = HeaderOf(Head(inbuf[fd]))]))
        \/ \* a body left by an earlier response is read first; it holds no
           \* "\r\n\r\n", so the loop goes on and appends the next response
           /\ Len(inbuf[fd]) >= 2 /\ IsLeftover(Head(inbuf[fd]))
           /\ ~IsLeftover(inbuf[fd][2])
           /\ inbuf' = [inbuf EXCEPT ![fd] = Tail(Tail(@))]
           /\ Set(t, Received([th[t] EXCEPT !.resp = inbuf[fd][2]]))
        \/ \* ... or nothing follows it: n <= 0 with total > 0 and no 200
           /\ Len(inbuf[fd]) = 1 /\ IsLeftover(Head(inbuf[fd]))
           /\ inbuf' = [inbuf EXCEPT ![fd] = <<>>]
           /\ Set(t, AfterFail(th[t]))
  /\ UNCHANGED <<srvVars, flags, addr, page_server_socket, page_server_mutex,
                 fdState, life, calls, crashed>>

(***************************************************************************)
(* The mutex.                                                              *)
(***************************************************************************)
\* what a call that holds the mutex does first: rpc_get_page or
\* rpc_stream_wal build the request and enter http_request; a batch of no
\* requests goes straight to the unlock
AfterLock(r) ==
  IF r.op = "get_pages_batch" /\ r.args.num_reqs = 0
    THEN [r EXCEPT !.pc = "unlock", !.ret = 0]
    ELSE Entered(r)

\* mysql_mutex_lock(&page_server_mutex) of get_page, stream_wal and
\* get_pages_batch
Lock(t) ==
  /\ Running(t, "lock")
  /\ \/ /\ page_server_mutex.state = "init"
        /\ page_server_mutex.owner = None
        /\ page_server_mutex' = [page_server_mutex EXCEPT !.owner = t]
        /\ Set(t, AfterLock([th[t] EXCEPT !.locked = TRUE]))
        /\ UNCHANGED crashed
     \/ \* locking a destroyed mutex is undefined: the call goes on without
        \* the lock
        /\ page_server_mutex.state = "destroyed"
        /\ Set(t, AfterLock(th[t]))
        /\ UNCHANGED <<page_server_mutex, crashed>>
     \/ \* ... or the process dies
        /\ page_server_mutex.state = "destroyed"
        /\ crashed' = TRUE
        /\ UNCHANGED <<page_server_mutex, th>>
  /\ UNCHANGED <<srvVars, flags, addr, page_server_socket, net, life, calls>>

\* mysql_mutex_unlock(&page_server_mutex); return
Unlock(t) ==
  /\ Running(t, "unlock")
  /\ page_server_mutex' =
       IF page_server_mutex.owner = t
         THEN [page_server_mutex EXCEPT !.owner = None]
         ELSE page_server_mutex
  /\ Set(t, [th[t] EXCEPT !.pc = "done", !.locked = FALSE])
  /\ UNCHANGED <<srvVars, flags, addr, page_server_socket, net, life, calls,
                 crashed>>

(***************************************************************************)
(* The public calls: the step from the call to its first access to shared  *)
(* state after the is_enabled() test.                                      *)
(***************************************************************************)
\* a thread may start a call: init runs at server startup, before the
\* threads that use the client, so no call starts while init is running
Callable(t) == Idle(t) /\ calls < MaxCalls /\ life.phase # "initing"

Call(op, args) ==
  [IdleThread EXCEPT !.op = op, !.args = args, !.sawEnabled = is_enabled]

CallFrame ==
  UNCHANGED <<srvVars, flags, addr, page_server_socket, page_server_mutex,
              net, life, crashed>>

\* get_page without its is_enabled() test
get_page_unchecked(t) ==
  /\ Callable(t)
  /\ \E key \in ClientKeys, lsn \in ClientLsns :
       Set(t, [Call("get_page",
                    [space_id |-> key[1], page_no |-> key[2], lsn |-> lsn,
                     page_size |-> PageSize]) EXCEPT !.pc = "lock"])
  /\ calls' = calls + 1
  /\ CallFrame

\* PageServerClient::get_page
get_page(t) ==
  /\ Callable(t)
  /\ \E key \in ClientKeys, lsn \in ClientLsns :
       LET r == Call("get_page",
                     [space_id |-> key[1], page_no |-> key[2], lsn |-> lsn,
                      page_size |-> PageSize])
       IN IF ~is_enabled
            THEN Set(t, [r EXCEPT !.pc = "done", !.ret = DB_ERROR])
            ELSE Set(t, [r EXCEPT !.pc = "lock"])
  /\ calls' = calls + 1
  /\ CallFrame

\* PageServerClient::stream_wal
stream_wal(t) ==
  /\ Callable(t)
  /\ \E lsn \in ClientLsns, wal \in ClientWal :
       LET r == Call("stream_wal", [lsn |-> lsn, wal_data |-> wal])
       IN IF ~is_enabled
            THEN Set(t, [r EXCEPT !.pc = "done", !.ret = DB_SUCCESS])
            ELSE Set(t, [r EXCEPT !.pc = "lock"])
  /\ calls' = calls + 1
  /\ CallFrame

\* requests of a batch: the same page at num_reqs successive LSNs
BatchRequests(n) ==
  [i \in 1..n |-> [space_id |-> 1, page_no |-> 42, lsn |-> 4 + i]]

\* PageServerClient::get_pages_batch; null: requests or results is nullptr
get_pages_batch(t) ==
  /\ Callable(t)
  /\ \E n \in 0..MaxBatch, null \in BOOLEAN :
       /\ null => n = 1
       /\ LET r == Call("get_pages_batch",
                        [num_reqs |-> n, requests |-> BatchRequests(n),
                         null |-> null, page_size |-> PageSize])
          IN IF ~is_enabled \/ null
               THEN Set(t, [r EXCEPT !.pc = "done", !.ret = 0])
               ELSE Set(t, [r EXCEPT !.pc = "lock"])
  /\ calls' = calls + 1
  /\ CallFrame

\* PageServerClient::ping: no mutex is taken
ping(t) ==
  /\ Callable(t)
  /\ LET r == Call("ping", <<>>)
     IN IF ~page_server_initialized
          THEN Set(t, [r EXCEPT !.pc = "done", !.ret = FALSE])
        ELSE IF ~page_server_enabled
          THEN Set(t, [r EXCEPT !.pc = "done", !.ret = TRUE])
        ELSE IF page_server_host = None
          THEN Set(t, [r EXCEPT !.pc = "done", !.ret = FALSE])
        ELSE Set(t, [r EXCEPT !.pc = "hr_entry"])
  /\ calls' = calls + 1
  /\ CallFrame

(***************************************************************************)
(* init and shutdown, called by the main thread.                           *)
(***************************************************************************)
\* PageServerClient::init up to the call of ping(); oom: my_malloc fails
init(t) ==
  /\ Idle(t) /\ t = "main" /\ life.phase = "none"
  /\ page_server_mutex' = [state |-> "init", owner |-> None]
  /\ \E address \in {None, "", Address}, oom \in BOOLEAN :
       LET r == Call("init", [address |-> address])
       IN IF address \in {None, ""}
            THEN /\ ~oom
                 /\ page_server_enabled' = FALSE
                 /\ page_server_initialized' = TRUE
                 /\ Set(t, [r EXCEPT !.pc = "done", !.ret = TRUE])
                 /\ life' = [phase |-> "inited", address |-> address,
                             pinged |-> None, ret |-> TRUE]
                 /\ UNCHANGED addr
          ELSE IF oom
            THEN /\ Set(t, [r EXCEPT !.pc = "done", !.ret = FALSE])
                 /\ life' = [phase |-> "inited", address |-> address,
                             pinged |-> None, ret |-> FALSE]
                 /\ UNCHANGED <<flags, addr>>
          ELSE /\ page_server_address' = address
               /\ page_server_host' = Host
               /\ page_server_enabled' = TRUE
               /\ page_server_initialized' = TRUE
               /\ Set(t, [r EXCEPT !.pc = "hr_entry", !.sawEnabled = TRUE])
               /\ life' = [phase |-> "initing", address |-> address,
                           pinged |-> None, ret |-> None]
  /\ UNCHANGED <<srvVars, page_server_socket, net, calls, crashed>>

\* init after ping() returned true: return true
init_ok(t) ==
  /\ Running(t, "init_ok")
  /\ Set(t, [th[t] EXCEPT !.pc = "done", !.ret = TRUE])
  /\ life' = [life EXCEPT !.phase = "inited", !.pinged = "ok", !.ret = TRUE]
  /\ UNCHANGED <<srvVars, flags, addr, page_server_socket, page_server_mutex,
                 net, calls, crashed>>

\* init that frees the address after a failed ping but stays enabled
init_fail_stays_enabled(t) ==
  /\ Running(t, "init_fail")
  /\ page_server_address' = None
  /\ page_server_host' = None
  /\ Set(t, [th[t] EXCEPT !.pc = "done", !.ret = FALSE])
  /\ life' = [life EXCEPT !.phase = "inited", !.pinged = "failed", !.ret = FALSE]
  /\ UNCHANGED <<srvVars, flags, page_server_socket, page_server_mutex, net,
                 calls, crashed>>

\* init after ping() returned false: disable, free, return false
init_fail(t) ==
  /\ Running(t, "init_fail")
  /\ page_server_enabled' = FALSE
  /\ page_server_address' = None
  /\ page_server_host' = None
  /\ Set(t, [th[t] EXCEPT !.pc = "done", !.ret = FALSE])
  /\ life' = [life EXCEPT !.phase = "inited", !.pinged = "failed", !.ret = FALSE]
  /\ UNCHANGED <<srvVars, page_server_initialized, page_server_socket,
                 page_server_mutex, net, calls, crashed>>

\* PageServerClient::shutdown: mysql_mutex_lock
shutdown(t) ==
  /\ Idle(t) /\ t = "main" /\ life.phase = "inited"
  /\ page_server_mutex.owner = None
  /\ page_server_mutex' = [page_server_mutex EXCEPT !.owner = t]
  /\ life' = [life EXCEPT !.phase = "shutting"]
  /\ Set(t, [IdleThread EXCEPT !.op = "shutdown", !.pc = "sd_close",
                               !.locked = TRUE])
  /\ UNCHANGED <<srvVars, flags, addr, page_server_socket, net, calls,
                 crashed>>

\* shutdown: close the socket, free the address and the host
shutdown_close(t) ==
  /\ Running(t, "sd_close")
  /\ IF page_server_socket >= 0
       THEN /\ fdState' = [fdState EXCEPT ![page_server_socket] = "closed"]
            /\ inbuf' = [inbuf EXCEPT ![page_server_socket] = <<>>]
       ELSE UNCHANGED net
  /\ page_server_socket' = -1
  /\ page_server_address' = None
  /\ page_server_host' = None
  /\ Set(t, [th[t] EXCEPT !.pc = "sd_flags"])
  /\ UNCHANGED <<srvVars, flags, page_server_mutex, life, calls, crashed>>

\* shutdown: clear the flags, mysql_mutex_unlock
shutdown_flags(t) ==
  /\ Running(t, "sd_flags")
  /\ page_server_enabled' = FALSE
  /\ page_server_initialized' = FALSE
  /\ page_server_mutex' = [page_server_mutex EXCEPT !.owner = None]
  /\ Set(t, [th[t] EXCEPT !.pc = "sd_destroy", !.locked = FALSE])
  /\ UNCHANGED <<srvVars, addr, page_server_socket, net, life, calls,
                 crashed>>

\* shutdown: mysql_mutex_destroy
shutdown_destroy(t) ==
  /\ Running(t, "sd_destroy")
  /\ page_server_mutex' = [page_server_mutex EXCEPT !.state = "destroyed"]
  /\ Set(t, [th[t] EXCEPT !.pc = "done"])
  /\ life' = [life EXCEPT !.phase = "down"]
  /\ UNCHANGED <<srvVars, flags, addr, page_server_socket, net, calls,
                 crashed>>

(***************************************************************************)
(* The handlers of the server step by step, each connection c served by    *)
(* its own goroutine.                                                      *)
(***************************************************************************)
\* bodies HTTP clients post to /api/v1/get_page
GetPageBodies ==
  {BadBody, [json |-> TRUE]}
    \cup {[json |-> TRUE, space_id |-> s, page_no |-> p, lsn |-> l] :
            s \in SpaceIds, p \in PageNos, l \in Lsns}

\* base64 texts posted as wal_data: two encodings and a text of bad length
WalTexts == {StdEncode(<<>>), StdEncode(<<72, 105>>), <<18, 6>>}

\* bodies HTTP clients post to /api/v1/stream_wal
StreamWALBodies ==
  {BadBody}
    \cup {[json |-> TRUE, lsn |-> 0, wal_data |-> w] : w \in WalTexts}
    \cup {[json |-> TRUE, lsn |-> l, wal_data |-> StdEncode(<<72, 105>>),
           space_id |-> 1, page_no |-> 42] : l \in {5, 6}}

Requests ==
  {Request("GET", "/api/v1/get_page", BadBody),
   Request("GET", "/api/v1/stream_wal", BadBody),
   Request("GET", "/api/v1/ping", BadBody),
   Request("POST", "/api/v1/ping", BadBody)}
    \cup {Request("POST", "/api/v1/get_page", b) : b \in GetPageBodies}
    \cup {Request("POST", "/api/v1/stream_wal", b) : b \in StreamWALBodies}

ServerFrame == UNCHANGED cliVars
SetConn(c, r) == srv' = [srv EXCEPT ![c] = r]
\* StreamWAL requests on their way to the append
Appending == {c \in SrvConns : srv[c].pc \in {"wal_lock", "wal_append"}}

\* handlePing taking the page lock and the WAL lock before it answers
Serve_ping_waits_for_locks(c) ==
  /\ srv[c].pc \in {"idle", "done"}
  /\ \E req \in Requests :
       LET r == [IdleConn EXCEPT !.req = req] IN
       IF req.path = "/api/v1/get_page"
         THEN SetConn(c, IF GetPageReject(req) # NoResp
                           THEN [r EXCEPT !.pc = "done",
                                          !.resp = GetPageReject(req)]
                           ELSE [r EXCEPT !.pc = "gp_rlock"])
       ELSE IF req.path = "/api/v1/stream_wal"
         THEN IF StreamWALReject(req) # NoResp
                THEN SetConn(c, [r EXCEPT !.pc = "done",
                                          !.resp = StreamWALReject(req)])
                ELSE /\ Len(walRecords) + Cardinality(Appending) < MaxWal
                     /\ SetConn(c, [r EXCEPT !.pc = "wal_lock"])
       ELSE /\ walMuOwner = None /\ muReaders = {}
            /\ SetConn(c, [r EXCEPT !.pc = "done", !.resp = handlePing(req)])
  /\ UNCHANGED <<pages, walRecords, muReaders, walMuOwner>>
  /\ ServerFrame

\* a request arrives on connection c; the handler runs up to its lock:
\* handleGetPage and handleStreamWAL check the method and decode the body,
\* handlePing answers
Serve(c) ==
  /\ srv[c].pc \in {"idle", "done"}
  /\ \E req \in Requests :
       LET r == [IdleConn EXCEPT !.req = req] IN
       IF req.path = "/api/v1/get_page"
         THEN SetConn(c, IF GetPageReject(req) # NoResp
                           THEN [r EXCEPT !.pc = "done",
                                          !.resp = GetPageReject(req)]
                           ELSE [r EXCEPT !.pc = "gp_rlock"])
       ELSE IF req.path = "/api/v1/stream_wal"
         THEN IF StreamWALReject(req) # NoResp
                THEN SetConn(c, [r EXCEPT !.pc = "done",
                                          !.resp = StreamWALReject(req)])
                ELSE /\ Len(walRecords) + Cardinality(Appending) < MaxWal
                     /\ SetConn(c, [r EXCEPT !.pc = "wal_lock"])
       ELSE SetConn(c, [r EXCEPT !.pc = "done", !.resp = handlePing(req)])
  /\ UNCHANGED <<pages, walRecords, muReaders, walMuOwner>>
  /\ ServerFrame

\* handleGetPage taking its read lock only while no StreamWAL holds walMu
GetPageRLock_waits_for_wal(c) ==
  /\ srv[c].pc = "gp_rlock"
  /\ walMuOwner = None
  /\ muReaders' = muReaders \cup {c}
  /\ SetConn(c, [srv[c] EXCEPT !.pc = "gp_read"])
  /\ UNCHANGED <<pages, walRecords, walMuOwner>>
  /\ ServerFrame

\* handleGetPage: s.mu.RLock()
GetPageRLock(c) ==
  /\ srv[c].pc = "gp_rlock"
  /\ muReaders' = muReaders \cup {c}
  /\ SetConn(c, [srv[c] EXCEPT !.pc = "gp_read"])
  /\ UNCHANGED <<pages, walRecords, walMuOwner>>
  /\ ServerFrame

\* handleGetPage filling the map with a zero page when the lookup misses
GetPageRead_caches_miss(c) ==
  /\ srv[c].pc = "gp_read"
  /\ LET r == DecodeGetPageRequest(srv[c].req.body)
         key == PageKey(r.SpaceID, r.PageNo)
         exists == key \in DOMAIN pages
     IN /\ SetConn(c, [srv[c] EXCEPT !.pc = "gp_respond", !.exists = exists,
                         !.pageData = IF exists THEN pages[key] ELSE <<>>])
        /\ pages' = [k \in DOMAIN pages \cup {key} |->
                      IF k \in DOMAIN pages THEN pages[k]
                      ELSE [i \in 1..PageSize |-> 0]]
  /\ muReaders' = muReaders \ {c}
  /\ UNCHANGED <<walRecords, walMuOwner>>
  /\ ServerFrame

\* handleGetPage: pageData, exists := s.pages[key]; s.mu.RUnlock()
GetPageRead(c) ==
  /\ srv[c].pc = "gp_read"
  /\ LET r == DecodeGetPageRequest(srv[c].req.body)
         key == PageKey(r.SpaceID, r.PageNo)
         exists == key \in DOMAIN pages
     IN SetConn(c, [srv[c] EXCEPT !.pc = "gp_respond", !.exists = exists,
                      !.pageData = IF exists THEN pages[key] ELSE <<>>])
  /\ muReaders' = muReaders \ {c}
  /\ UNCHANGED <<pages, walRecords, walMuOwner>>
  /\ ServerFrame

\* handleGetPage: build and write the response
GetPageRespond(c) ==
  /\ srv[c].pc = "gp_respond"
  /\ SetConn(c, [srv[c] EXCEPT
                   !.pc = "done",
                   !.resp = GetPageAnswer(srv[c].req, srv[c].exists,
                                          srv[c].pageData)])
  /\ UNCHANGED <<pages, walRecords, muReaders, walMuOwner>>
  /\ ServerFrame

\* handleStreamWAL: s.walMu.Lock()
StreamWALLock(c) ==
  /\ srv[c].pc = "wal_lock"
  /\ walMuOwner = None
  /\ walMuOwner' = c
  /\ SetConn(c, [srv[c] EXCEPT !.pc = "wal_append"])
  /\ UNCHANGED <<pages, walRecords, muReaders>>
  /\ ServerFrame

\* handleStreamWAL writing the record's data over the page it names
StreamWALAppend_applies_record(c) ==
  /\ srv[c].pc = "wal_append"
  /\ walRecords' = Append(walRecords, StreamWALRecord(srv[c].req))
  /\ LET rec == StreamWALRecord(srv[c].req)
         key == PageKey(rec.SpaceID, rec.PageNo)
     IN pages' = [k \in DOMAIN pages \cup {key} |->
                    IF k = key THEN rec.WALData ELSE pages[k]]
  /\ walMuOwner' = None
  /\ SetConn(c, [srv[c] EXCEPT !.pc = "wal_respond"])
  /\ UNCHANGED <<muReaders>>
  /\ ServerFrame

\* handleStreamWAL discarding a record whose LSN is not above the last one
StreamWALAppend_drops_stale(c) ==
  /\ srv[c].pc = "wal_append"
  /\ walRecords' =
       IF /\ Len(walRecords) > 0
          /\ StreamWALRecord(srv[c].req).LSN <= walRecords[Len(walRecords)].LSN
         THEN walRecords
         ELSE Append(walRecords, StreamWALRecord(srv[c].req))
  /\ walMuOwner' = None
  /\ SetConn(c, [srv[c] EXCEPT !.pc = "wal_respond"])
  /\ UNCHANGED <<pages, muReaders>>
  /\ ServerFrame

\* handleStreamWAL: s.walRecords = append(s.walRecords, record);
\* s.walMu.Unlock()
StreamWALAppend(c) ==
  /\ srv[c].pc = "wal_append"
  /\ walRecords' = Append(walRecords, StreamWALRecord(srv[c].req))
  /\ walMuOwner' = None
  /\ SetConn(c, [srv[c] EXCEPT !.pc = "wal_respond"])
  /\ UNCHANGED <<pages, muReaders>>
  /\ ServerFrame

\* handleStreamWAL: build and write the response
StreamWALRespond(c) ==
  /\ srv[c].pc = "wal_respond"
  /\ SetConn(c, [srv[c] EXCEPT !.pc = "done",
                               !.resp = StreamWALAnswer(srv[c].req)])
  /\ UNCHANGED <<pages, walRecords, muReaders, walMuOwner>>
  /\ ServerFrame

(***************************************************************************)
(* The initial state and the specification of the client with its server.  *)
(***************************************************************************)
ClientInit ==
  /\ page_server_enabled = FALSE
  /\ page_server_initialized = FALSE
  /\ page_server_address = None
  /\ page_server_host = None
  /\ page_server_socket = -1
  /\ page_server_mutex = [state |-> "uninit", owner |-> None]
  /\ fdState = [fd \in Fds |-> "closed"]
  /\ inbuf = [fd \in Fds |-> <<>>]
  /\ th = [t \in Threads |-> IdleThread]
  /\ life = [phase |-> "none", address |-> None, pinged |-> None,
             ret |-> None]
  /\ calls = 0
  /\ crashed = FALSE

Init == NewPageServer /\ ClientInit

Next ==
  \E t \in Threads :
    \/ init(t) \/ init_ok(t) \/ init_fail(t)
    \/ shutdown(t) \/ shutdown_close(t) \/ shutdown_flags(t)
    \/ shutdown_destroy(t)
    \/ get_page(t) \/ stream_wal(t) \/ get_pages_batch(t) \/ ping(t)
    \/ Lock(t) \/ Unlock(t)
    \/ http_request(t) \/ http_connect(t) \/ http_store(t)
    \/ http_send(t) \/ http_recv(t)

Spec == Init /\ [][Next]_vars

\* the server alone, serving arbitrary HTTP clients
NextServer ==
  \E c \in SrvConns :
    \/ Serve(c)
    \/ GetPageRLock(c) \/ GetPageRead(c) \/ GetPageRespond(c)
    \/ StreamWALLock(c) \/ StreamWALAppend(c) \/ StreamWALRespond(c)

SpecServer == Init /\ [][NextServer]_vars

\* the steps of the handlers on connection c after the request has arrived
Handle(c) ==
  \/ GetPageRLock(c) \/ GetPageRead(c) \/ GetPageRespond(c)
  \/ StreamWALLock(c) \/ StreamWALAppend(c) \/ StreamWALRespond(c)

\* a client polls on connection c: POST /api/v1/get_page for page 1:42 at
\* lsn 5
PolledRequest ==
  Request("POST", "/api/v1/get_page",
          [json |-> TRUE, space_id |-> 1, page_no |-> 42, lsn |-> 5])

Poll(c) == Serve(c) /\ srv'[c].req = PolledRequest

\* the server with the scheduling of net/http: the goroutine of every
\* connection keeps running its handler, and the polling client sends its
\* GetPage again and again
SpecServerLive ==
  /\ Init
  /\ [][NextServer]_vars
  /\ \A c \in SrvConns : WF_vars(Handle(c)) /\ SF_vars(Poll(c))

(***************************************************************************)
(* No handler writes PageServer.pages, so the server main() starts never   *)
(* holds a page.  handleGetPage's branch for a page that exists is checked *)
(* on a PageServer value whose map holds one page image.                   *)
(***************************************************************************)
StoredImage == [i \in 1..PageSize |-> i]

PageServerWithPage ==
  /\ pages = [k \in {PageKey(1, 42)} |-> StoredImage]
  /\ walRecords = <<>>
  /\ muReaders = {}
  /\ walMuOwner = None
  /\ srv = [c \in SrvConns |-> IdleConn]

InitStore == PageServerWithPage /\ ClientInit

SpecStore == InitStore /\ [][NextServer]_vars

\* the client with a server that holds the page
SpecClientStore == InitStore /\ [][Next]_vars

\* the client over a connection that may deliver a response in two segments
NextSegmented == Next \/ \E t \in Threads : http_recv_segmented(t)

SpecSegmented == Init /\ [][NextSegmented]_vars

(***************************************************************************)
(* The client's base64 functions applied to payloads of every length up to *)
(* the page size: thread t encodes args.data as rpc_stream_wal does, then   *)
(* decodes the text into a buffer of PageSize bytes as rpc_get_page does.   *)
(***************************************************************************)
CodecBytes == {0, 72, 255}
Payloads == UNION {[1..n -> CodecBytes] : n \in 0..PageSize}

\* base64_encode(data, len, out, ((len + 2) / 3) * 4 + 1)
Base64EncodeCall(t) ==
  /\ Running(t, "b64_encode")
  /\ LET data == th[t].args.data
     IN Set(t, [th[t] EXCEPT
                  !.args.b64 = base64_encode(data,
                                 ((Len(data) + 2) \div 3) * 4 + 1),
                  !.pc = "b64_decode"])
  /\ UNCHANGED <<srvVars, flags, addr, page_server_socket, page_server_mutex,
                 net, life, calls, crashed>>

\* decoded_len = base64_decode(text, buf, page_size)
Base64DecodeCall(t) ==
  /\ Running(t, "b64_decode")
  /\ LET out == base64_decode(th[t].args.b64, PageSize)
     IN Set(t, [th[t] EXCEPT !.buf = out, !.ret = Len(out),
                             !.pc = "b64_done"])
  /\ UNCHANGED <<srvVars, flags, addr, page_server_socket, page_server_mutex,
                 net, life, calls, crashed>>

InitCodec ==
  /\ NewPageServer
  /\ page_server_enabled = FALSE
  /\ page_server_initialized = FALSE
  /\ page_server_address = None
  /\ page_server_host = None
  /\ page_server_socket = -1
  /\ page_server_mutex = [state |-> "uninit", owner |-> None]
  /\ fdState = [fd \in Fds |-> "closed"]
  /\ inbuf = [fd \in Fds |-> <<>>]
  /\ \E data \in Payloads :
       th = [t \in Threads |->
               IF t = "main"
                 THEN [IdleThread EXCEPT !.pc = "b64_encode", !.op = "base64",
                                         !.args = [data |-> data, b64 |-> <<>>]]
                 ELSE IdleThread]
  /\ life = [phase |-> "none", address |-> None, pinged |-> None,
             ret |-> None]
  /\ calls = 0
  /\ crashed = FALSE

NextCodec == \E t \in Threads : Base64EncodeCall(t) \/ Base64DecodeCall(t)

SpecCodec == InitCodec /\ [][NextCodec]_vars

(***************************************************************************)
(* rpc_get_page from the return of http_request on, applied to the         *)
(* responses a server can send and to the failure of the transport.        *)
(***************************************************************************)
\* page_data texts: empty, padding only, characters outside the alphabet,
\* an encoding cut short, and the encodings of images of 1..PageSize + 1
\* bytes
PageDataTexts ==
  {<<>>, <<Pad, Pad, Pad, Pad>>, <<99, 99>>,
   SubSeq(StdEncode(<<72, 105, 33>>), 1, 3)}
    \cup {StdEncode([i \in 1..n |-> 72]) : n \in 1..(PageSize + 1)}

\* what http_request leaves in the response buffer: nothing, an error
\* response, or a 200 with no body, without status, with a status that is
\* not success, without page_data, or with page_data
GetPageReplies ==
  {NoResp,
   HttpError(StatusBadRequest, "Invalid JSON"),
   GetPageAnswer(GetPageRequest(1, 42, 5), FALSE, <<>>),
   HeaderOf(JsonResponse(StatusOK, EncodePingResponse)),
   JsonResponse(StatusOK, [version |-> "1.0.0"]),
   JsonResponse(StatusOK, EncodePingResponse),
   JsonResponse(StatusOK, [status |-> "success"])}
    \cup {JsonResponse(StatusOK, [status |-> "success", page_data |-> txt]) :
            txt \in PageDataTexts}
    \cup {JsonResponse(StatusOK, [status |-> "success", page_data |-> txt,
                                  page_lsn |-> 7]) : txt \in PageDataTexts}

\* what the caller's buffer and *page_lsn hold before the call
CallerBufs == {[i \in 1..PageSize |-> 170], [i \in 1..PageSize |-> 0]}
CallerLsns == {3}

\* rpc_get_page after http_request: return err, or parse the response
RpcGetPageParse(t) ==
  /\ Running(t, "rpc_parse")
  /\ Set(t, Finished(th[t], IF th[t].resp.code = StatusOK
                              THEN DB_SUCCESS ELSE DB_ERROR))
  /\ UNCHANGED <<srvVars, flags, addr, page_server_socket, page_server_mutex,
                 net, life, calls, crashed>>

InitParse ==
  /\ NewPageServer
  /\ page_server_enabled = TRUE
  /\ page_server_initialized = TRUE
  /\ page_server_address = Address
  /\ page_server_host = Host
  /\ page_server_socket = -1
  /\ page_server_mutex = [state |-> "init", owner |-> None]
  /\ fdState = [fd \in Fds |-> "closed"]
  /\ inbuf = [fd \in Fds |-> <<>>]
  /\ th \in [Threads ->
              {[IdleThread EXCEPT
                  !.pc = "rpc_parse", !.op = "get_page",
                  !.args = [space_id |-> 1, page_no |-> 42, lsn |-> 5,
                            page_size |-> PageSize, buf |-> b,
                            page_lsn |-> l],
                  !.sawEnabled = TRUE, !.attempts = 1,
                  !.resp = resp, !.buf = b, !.page_lsn = l] :
                 resp \in GetPageReplies, b \in CallerBufs,
                 l \in CallerLsns}]
  /\ life = [phase |-> "inited", address |-> Address, pinged |-> "ok",
             ret |-> TRUE]
  /\ calls = 0
  /\ crashed = FALSE

NextParse == \E t \in Threads : RpcGetPageParse(t)

SpecParse == InitParse /\ [][NextParse]_vars

(***************************************************************************)
(* The bytes of a stream_wal request: rpc_stream_wal builds the body in    *)
(* request_body[8192], http_request builds the request in a buffer of 4096 *)
(* bytes and sends len bytes of it.  Texts are modelled by their lengths.  *)
(***************************************************************************)
\* char request_body[8192]
BodyBufSize == 8192
\* my_malloc(PSI_INSTRUMENT_ME, 4096, MYF(0)) and snprintf(request, 4096,
RequestBufSize == 4096

Min(a, b) == IF a < b THEN a ELSE b

\* the number of characters %llu, %zu and %u print
RECURSIVE Digits(_)
Digits(n) == IF n < 10 THEN 1 ELSE 1 + Digits(n \div 10)

\* strlen of what base64_encode(data, len, out, out_len) leaves in out: four
\* characters per iteration of `i < len && j + 4 < out_len; i += 3`
EncodedLen(len, out_len) == 4 * Min((len + 2) \div 3, (out_len - 1) \div 4)

\* the length of the complete base64 text of len bytes
FullEncodedLen(len) == 4 * ((len + 2) \div 3)

\* snprintf(buf, size, ...) of a text of n characters: it stores at most
\* size - 1 of them and returns n
Stored(size, n) == Min(n, size - 1)

\* {"lsn":%llu,"wal_data":"%s"}
StreamWalBodyLen(lsn, b64) == 7 + Digits(lsn) + 13 + b64 + 2

\* the request line and the headers of POST /api/v1/stream_wal to
\* localhost:8080, up to and including the empty line
HeaderLen(content_length) ==
  (4 + 1 + 18 + 9 + 2) + (6 + 9 + 1 + 4 + 2) + (30 + 2)
    + (16 + Digits(content_length) + 2) + (22 + 2) + 2

\* wal_len of the records streamed: around the sizes at which the request
\* and the body reach their buffers, and a page of 16384 bytes
WalLens ==
  (0..4) \cup (2945..2960) \cup (6120..6132) \cup {16384}
WireLsns == {5, 1000}

\* rpc_stream_wal: base64_encode and snprintf(request_body, ...)
StreamWalBuildBody(t) ==
  /\ Running(t, "wire_body")
  /\ LET a == th[t].args
         b64 == EncodedLen(a.wal_len, ((a.wal_len + 2) \div 3) * 4 + 1)
         body == Stored(BodyBufSize, StreamWalBodyLen(a.lsn, b64))
     IN Set(t, [th[t] EXCEPT !.args = [a EXCEPT !.b64 = b64, !.body = body],
                             !.pc = "wire_request"])
  /\ UNCHANGED <<srvVars, flags, addr, page_server_socket, page_server_mutex,
                 net, life, calls, crashed>>

\* http_request: int len = snprintf(request, 4096, ...) with
\* Content-Length: strlen(body)
HttpBuildRequest(t) ==
  /\ Running(t, "wire_request")
  /\ LET a == th[t].args
         len == HeaderLen(a.body) + a.body
     IN Set(t, [th[t] EXCEPT
                  !.args = [a EXCEPT !.content_length = a.body,
                                     !.header = HeaderLen(a.body),
                                     !.len = len,
                                     !.held = Stored(RequestBufSize, len)],
                  !.pc = "wire_send"])
  /\ UNCHANGED <<srvVars, flags, addr, page_server_socket, page_server_mutex,
                 net, life, calls, crashed>>

\* http_request: send(sockfd, request, len, 0)
HttpSendRequest(t) ==
  /\ Running(t, "wire_send")
  /\ LET a == th[t].args
     IN \/ \* the kernel takes len bytes; past the end of the buffer they
           \* are whatever follows it in the heap
           /\ Set(t, [th[t] EXCEPT !.args = [a EXCEPT !.sent = a.len],
                                   !.pc = "wire_sent"])
           /\ UNCHANGED crashed
        \/ \* reading past the buffer is undefined: send fails with EFAULT
           /\ a.len > a.held
           /\ Set(t, [th[t] EXCEPT !.args = [a EXCEPT !.sent = -1],
                                   !.pc = "wire_sent"])
           /\ UNCHANGED crashed
        \/ \* ... or the process dies
           /\ a.len > a.held
           /\ crashed' = TRUE
           /\ UNCHANGED th
  /\ UNCHANGED <<srvVars, flags, addr, page_server_socket, page_server_mutex,
                 net, life, calls>>

InitWire ==
  /\ NewPageServer
  /\ page_server_enabled = TRUE
  /\ page_server_initialized = TRUE
  /\ page_server_address = Address
  /\ page_server_host = Host
  /\ page_server_socket = -1
  /\ page_server_mutex = [state |-> "init", owner |-> None]
  /\ fdState = [fd \in Fds |-> "closed"]
  /\ inbuf = [fd \in Fds |-> <<>>]
  /\ \E n \in WalLens, l \in WireLsns :
       th = [t \in Threads |->
               IF t = "main"
                 THEN [IdleThread EXCEPT
                         !.pc = "wire_body", !.op = "stream_wal",
                         !.args = [lsn |-> l, wal_len |-> n, b64 |-> 0,
                                   body |-> 0, content_length |-> 0,
                                   header |-> 0, len |-> 0, held |-> 0,
                                   sent |-> 0],
                         !.sawEnabled = TRUE]
                 ELSE IdleThread]
  /\ life = [phase |-> "inited", address |-> Address, pinged |-> "ok",
             ret |-> TRUE]
  /\ calls = 0
  /\ crashed = FALSE

NextWire ==
  \E t \in Threads :
    StreamWalBuildBody(t) \/ HttpBuildRequest(t) \/ HttpSendRequest(t)

SpecWire == InitWire /\ [][NextWire]_vars

(***************************************************************************)
(* Properties of the client (Spec).                                        *)
(***************************************************************************)
ApiOps == {"get_page", "stream_wal", "get_pages_batch", "ping"}
InCall(r) == r.pc \notin {"idle", "done"}
\* the thread's step is the return of its http_request
Returns(t) ==
  /\ th[t].pc \in {"hr_connect", "hr_store", "hr_send", "hr_recv"}
  /\ th'[t].pc \notin {"hr_connect", "hr_store", "hr_send", "hr_recv"}

\* C1: at any time at most one caller of get_page, stream_wal,
\* get_pages_batch and ping is inside http_request (connecting, sending or
\* receiving on page_server_socket).
C1_OneRequestInFlight ==
  \A a, b \in Threads :
    (a # b /\ th[a].op \in ApiOps /\ th[b].op \in ApiOps)
      => ~(InHttpRequest(a) /\ InHttpRequest(b))

\* C2: a stream_wal call of the enabled client whose every attempt failed
\* because the server is unreachable returns DB_SUCCESS.
C2_StreamWalDegrades ==
  \A t \in Threads :
    (/\ th[t].op = "stream_wal" /\ th[t].pc \in {"unlock", "done"}
     /\ life.phase = "inited" /\ is_enabled
     /\ th[t].sawEnabled /\ th[t].netfail
     /\ th[t].attempts = MAX_RETRIES + 1 /\ th[t].err = DB_ERROR)
      => th[t].ret = DB_SUCCESS

\* C3: a call made while is_enabled() is false returns in its first step
\* (get_page DB_ERROR, stream_wal DB_SUCCESS, get_pages_batch 0, ping a
\* boolean) without entering http_request, and that step leaves the
\* descriptors, what was sent and received, the server's records and
\* page_server_socket unchanged.
C3_DisabledShortCircuit ==
  [][\A t \in Threads :
       (th'[t] # th[t] /\ th'[t].op \in ApiOps /\ ~th'[t].sawEnabled)
         => /\ th'[t].pc = "done"
            /\ th'[t].attempts = 0
            /\ th'[t].op = "get_page" => th'[t].ret = DB_ERROR
            /\ th'[t].op = "stream_wal" => th'[t].ret = DB_SUCCESS
            /\ th'[t].op = "get_pages_batch" => th'[t].ret = 0
            /\ th'[t].op = "ping" => th'[t].ret \in BOOLEAN
            /\ UNCHANGED <<page_server_socket, fdState, inbuf, walRecords>>
    ]_vars

C3_Witness ==
  \E t \in Threads :
    /\ th[t].op = "get_page" /\ th[t].pc = "done" /\ ~th[t].sawEnabled
    /\ life.phase = "inited" /\ life.address = Address

\* C4: from the return of init(address) until shutdown() begins,
\* is_enabled() is true exactly when address was non-empty and the startup
\* ping succeeded; with a null or empty address init returned true and the
\* client is disabled.
C4_EnabledIffPinged ==
  life.phase = "inited"
    => /\ is_enabled <=> (life.address \notin {None, ""} /\ life.pinged = "ok")
       /\ life.address \in {None, ""} => (life.ret = TRUE /\ ~is_enabled)

C4_Witness ==
  /\ life.phase = "inited" /\ life.address = Address
  /\ life.pinged = "ok" /\ is_enabled /\ calls = MaxCalls
  /\ \A t \in Threads : th[t].pc = "done"

\* C5: init with a configured address and an unreachable server has made its
\* liveness check, leaves the client disabled and does not report a failure
\* (returns true).
C5_InitUnreachable ==
  (/\ life.phase = "inited" /\ life.address = Address
   /\ th["main"].op = "init" /\ th["main"].netfail
   /\ th["main"].err = DB_ERROR)
    => /\ th["main"].attempts >= 1
       /\ ~is_enabled
       /\ life.ret = TRUE

\* the steps a call still has to take, at most: an http_request per
\* remaining request of the call, attempts per http_request, steps per attempt
Rank(r) ==
  LET left == IF r.op = "get_pages_batch" THEN r.args.num_reqs - r.bi ELSE 1
      attempt == 1 + 5 * r.retry
  IN CASE r.pc = "lock" -> 100
       [] r.pc = "hr_entry" -> 20 * left
       [] r.pc = "hr_connect" -> 20 * left - attempt - 1
       [] r.pc = "hr_store" -> 20 * left - attempt - 2
       [] r.pc = "hr_send" -> 20 * left - attempt - 3
       [] r.pc = "hr_recv" -> 20 * left - attempt - 4
       [] r.pc = "sd_close" -> 3
       [] r.pc = "sd_flags" -> 2
       [] r.pc \in {"unlock", "init_ok", "init_fail", "sd_destroy"} -> 1
       [] OTHER -> 0

\* C6: http_request makes at most MAX_RETRIES + 1 attempts and returns
\* DB_ERROR exactly when no attempt read an HTTP 200 response; every step of
\* a call brings it closer to its return, so no call retries forever.
C6_BoundedAttempts ==
  [][\A t \in Threads :
       /\ th'[t].attempts <= MAX_RETRIES + 1
       /\ InCall(th[t])
            => \/ Rank(th'[t]) \in 0..(Rank(th[t]) - 1)
               \/ th'[t] = th[t]
       /\ Returns(t)
            => /\ th'[t].err \in {DB_SUCCESS, DB_ERROR}
               /\ th'[t].err = DB_ERROR <=> th'[t].resp.code # StatusOK
    ]_vars

C6_Witness ==
  \E t \in Threads :
    /\ th[t].op = "stream_wal" /\ th[t].pc = "done"
    /\ th[t].attempts = MAX_RETRIES + 1 /\ th[t].err = DB_ERROR
    /\ th[t].ret = DB_ERROR

\* C7: when http_request of a ping or stream_wal of the enabled client
\* started on the cached connection, its first attempt failed and the
\* network failed no attempt on a new connection (the server is reachable),
\* it returns DB_SUCCESS, and page_server_socket is the open connection it
\* made.
C7_TransparentReconnect ==
  [][\A t \in Threads :
       (/\ Returns(t) /\ th'[t].op \in {"ping", "stream_wal"}
        /\ th[t].cached /\ th'[t].attempts >= 2
        /\ life.phase = "inited" /\ is_enabled
        /\ \A u \in Threads : ~th'[u].netfail)
         => /\ th'[t].err = DB_SUCCESS
            /\ page_server_socket' = th[t].sockfd
            /\ page_server_socket' >= 0
            /\ fdState'[page_server_socket'] = "open"
    ]_vars

\* C8: a get_page the server answered with "page not found" returns an
\* outcome different from that of a get_page whose attempts all failed in
\* the network.
C8_NotFoundDistinct ==
  \A a, b \in Threads :
    (/\ th[a].op = "get_page" /\ th[a].pc = "done" /\ th[a].sawEnabled
     /\ th[a].resp.code = StatusNotFound /\ ~th[a].netfail
     /\ th[b].op = "get_page" /\ th[b].pc = "done" /\ th[b].sawEnabled
     /\ th[b].resp = NoResp /\ th[b].netfail
     /\ th[b].attempts = MAX_RETRIES + 1)
      => th[a].ret # th[b].ret

\* C25: ping() returns true only if the Page Server is reachable: a call
\* that returned true sent a ping request and got the server's HTTP 200
\* answer to it during that call.
C25_PingTrueOnlyIfReachable ==
  \A t \in Threads :
    (th[t].op = "ping" /\ th[t].pc = "done" /\ th[t].ret = TRUE)
      => /\ th[t].attempts >= 1
         /\ th[t].resp = handlePing(PingRequest)
         /\ th[t].resp.code = StatusOK

\* C30: whenever no request is executing, page_server_socket is -1 or a
\* descriptor that is still open; no step closes a descriptor that is
\* already closed, and no request sends on a closed descriptor.
C30_SocketOpenOrNone ==
  [][/\ (\A t \in Threads :
           th'[t].pc \notin {"hr_entry", "hr_connect", "hr_store", "hr_send", "hr_recv"})
         => \/ page_server_socket' = -1
            \/ fdState'[page_server_socket'] = "open"
     /\ \A t \in Threads :
          (th[t].pc = "hr_connect" /\ th'[t] # th[t] /\ th[t].sockfd >= 0)
            => fdState[th[t].sockfd] = "open"
     /\ \A t \in Threads :
          (th[t].pc = "hr_send" /\ th'[t] # th[t])
            => fdState[th[t].sockfd] = "open"
    ]_vars

\* the thread is inside the retry loop of http_request
InLoop(r) == r.pc \in {"hr_connect", "hr_store", "hr_send", "hr_recv"}

\* C29: the backoff schedule of http_request.  A step that ends the failed
\* attempt number k and starts another one (k = 0, 1) sleeps 100 ms * 2^k;
\* the step that returns, after a success or after the final failed attempt,
\* does not sleep; a call starts with nothing slept and never sleeps more
\* than 300 ms in total.
C29_BackoffSchedule ==
  [][\A t \in Threads :
       /\ th'[t].slept <= 3 * BackoffBase
       /\ (InLoop(th'[t]) /\ ~InLoop(th[t])) => th'[t].slept = 0
       /\ (InLoop(th[t]) /\ th'[t] # th[t])
            => IF th'[t].attempts = th[t].attempts + 1
                 THEN /\ th[t].retry \in 0..(MAX_RETRIES - 1)
                      /\ th'[t].retry = th[t].retry + 1
                      /\ th'[t].slept
                           = th[t].slept + BackoffBase * (2 ^ th[t].retry)
                 ELSE /\ th'[t].attempts = th[t].attempts
                      /\ th'[t].slept = th[t].slept
                      /\ (~InLoop(th'[t]) /\ th'[t].err = DB_ERROR)
                           => th[t].retry = MAX_RETRIES
    ]_vars

C29_Witness ==
  \E t \in Threads :
    /\ th[t].op = "stream_wal"
    /\ th[t].pc = "done"
    /\ th[t].err = DB_ERROR
    /\ th[t].attempts = MAX_RETRIES + 1
    /\ th[t].slept = 3 * BackoffBase

\* the thread is inside the loop of a get_pages_batch that holds the mutex
InBatch(r) ==
  /\ r.op = "get_pages_batch"
  /\ r.locked
  /\ r.pc \in {"hr_entry", "hr_connect", "hr_store", "hr_send", "hr_recv"}

\* C27: get_pages_batch returns the number of indices i < num_reqs with
\* results[i].err = DB_SUCCESS, having issued every request of the batch in
\* index order, a failed one not stopping the later ones; and while a batch
\* holds the client mutex no other caller sends a request.
C27_BatchCountsAndExcludes ==
  [][\A t \in Threads :
       /\ (/\ th'[t].op = "get_pages_batch"
           /\ th'[t].pc \in {"unlock", "done"}
           /\ th'[t].sawEnabled
           /\ ~th'[t].args.null)
            => /\ Len(th'[t].results) = th'[t].args.num_reqs
               /\ th'[t].ret
                    = Cardinality({i \in 1..Len(th'[t].results) :
                                     th'[t].results[i].err = DB_SUCCESS})
               /\ th'[t].ret \in 0..th'[t].args.num_reqs
       /\ InBatch(th[t])
            => \A u \in Threads \ {t} :
                 ~(th[u].pc = "hr_send" /\ th'[u] # th[u])
    ]_vars

\* thread t's http_request returns DB_SUCCESS in this step: its recv loop
\* ended with "HTTP/1.1 200" in the response buffer
HttpRequestSucceeds(t) ==
  /\ th[t].pc = "hr_recv" /\ th'[t] # th[t]
  /\ th'[t].resp.code = StatusOK

\* the bytes thread t's recv loop reads first are what an earlier response
\* left in its connection
ReadsLeftover(t) ==
  /\ th[t].sockfd \in Fds
  /\ inbuf[th[t].sockfd] # <<>>
  /\ IsLeftover(Head(inbuf[th[t].sockfd]))

\* C28: the response http_request hands back with DB_SUCCESS is the
\* server's response to the request this call sent: it holds no bytes an
\* earlier response left in the connection, and it includes its JSON body.
C28_OwnCompleteResponse ==
  [][\A t \in Threads :
       HttpRequestSucceeds(t)
         => /\ th'[t].resp = Route(pages, CurrentRequest(th[t]))
            /\ ~ReadsLeftover(t)
            /\ th'[t].resp.json
    ]_vars

\* shutdown() has returned
ShutDown == life.phase = "down"

\* C31: after shutdown() has returned, is_enabled() is false,
\* page_server_socket is -1 and the address and the host are cleared; a call
\* made from then on returns in its first step (ping false, get_page
\* DB_ERROR, stream_wal DB_SUCCESS, get_pages_batch 0) and that step leaves
\* the descriptors and what was sent and received unchanged.
C31_AfterShutdown ==
  /\ [](ShutDown
          => /\ ~is_enabled
             /\ page_server_socket = -1
             /\ page_server_address = None
             /\ page_server_host = None)
  /\ [][\A t \in Threads :
          (ShutDown /\ Idle(t) /\ th'[t] # th[t])
            => /\ th'[t].pc = "done"
               /\ th'[t].op = "ping" => th'[t].ret = FALSE
               /\ th'[t].op = "get_page" => th'[t].ret = DB_ERROR
               /\ th'[t].op = "stream_wal" => th'[t].ret = DB_SUCCESS
               /\ th'[t].op = "get_pages_batch" => th'[t].ret = 0
               /\ UNCHANGED <<fdState, inbuf, walRecords>>
      ]_vars

\* the calls that take page_server_mutex
LockedOps == {"get_page", "stream_wal", "get_pages_batch"}

\* thread t takes a step of http_request that uses the network (connect,
\* send, receive) or stores the descriptor
DoesIO(t) ==
  /\ th[t].pc \in {"hr_connect", "hr_store", "hr_send", "hr_recv"}
  /\ th'[t] # th[t]

\* C32: no get_page, stream_wal or get_pages_batch locks the mutex or takes
\* a network step once shutdown() has destroyed the mutex and cleared the
\* host, and such a call takes its network steps only while shutdown() has
\* not begun: a call that passed its is_enabled() test completes before
\* shutdown proceeds or performs no I/O.
C32_ShutdownExcludesCalls ==
  [][\A t \in Threads :
       th[t].op \in LockedOps
         => /\ ((th[t].pc = "lock" /\ th'[t] # th[t]) \/ DoesIO(t))
                 => ~(page_server_mutex.state = "destroyed"
                      /\ page_server_host = None)
            /\ DoesIO(t) => life.phase \notin {"shutting", "down"}
    ]_vars

\* thread t's recv loop reads a response that is not a 200
ReadsNon200(t) ==
  /\ th[t].pc = "hr_recv" /\ th'[t] # th[t]
  /\ th[t].sockfd \in Fds
  /\ inbuf[th[t].sockfd] # <<>>
  /\ inbuf'[th[t].sockfd] = Tail(inbuf[th[t].sockfd])
  /\ Head(inbuf[th[t].sockfd]).code # StatusOK

\* C34: a response that is not HTTP 200, the 404 for a missing page
\* included, is handled like a failure of the transport: while attempts
\* remain the call goes back to connect with reconnect set, the reconnect
\* closes the connection the response came on, and the same request is
\* sent again; after the last attempt the call returns DB_ERROR. A
\* get_page answered 404 has made MAX_RETRIES + 1 attempts when it returns.
C34_Non200Retried ==
  /\ [](\A t \in Threads :
          (/\ th[t].op = "get_page" /\ th[t].pc = "done" /\ th[t].sawEnabled
           /\ th[t].resp.code = StatusNotFound)
            => /\ th[t].attempts = MAX_RETRIES + 1
               /\ th[t].ret = DB_ERROR)
  /\ [][\A t \in Threads :
          /\ ReadsNon200(t)
               => IF th[t].retry < MAX_RETRIES
                    THEN /\ th'[t].pc = "hr_connect"
                         /\ th'[t].reconnect
                         /\ th'[t].attempts = th[t].attempts + 1
                         /\ CurrentRequest(th'[t]) = CurrentRequest(th[t])
                    ELSE /\ ~InLoop(th'[t])
                         /\ th'[t].err = DB_ERROR
          /\ (th[t].pc = "hr_connect" /\ th'[t] # th[t] /\ th[t].sockfd >= 0)
               => /\ inbuf'[th[t].sockfd] = <<>>
                  /\ \/ fdState'[th[t].sockfd] = "closed"
                     \/ th'[t].sockfd = th[t].sockfd
      ]_vars

C34_Witness ==
  \E t \in Threads :
    /\ th[t].op = "get_page" /\ th[t].pc = "done" /\ th[t].sawEnabled
    /\ th[t].resp = GetPageAnswer(CurrentRequest(th[t]), FALSE, <<>>)
    /\ th[t].attempts = MAX_RETRIES + 1 /\ ~th[t].netfail
    /\ th[t].ret = DB_ERROR

\* init(address) returned true after its ping succeeded
InitSucceeded == life.pinged = "ok"

\* C36: failures of requests never change the enabled state: after a
\* successful init is_enabled() is true until shutdown() clears the flags,
\* and no other step makes it false; so a call made while the server is
\* down takes every network step of its http_request holding
\* page_server_mutex, and returns DB_ERROR only after MAX_RETRIES + 1
\* attempts.
C36_FailuresKeepEnabled ==
  /\ []((InitSucceeded /\ life.phase = "inited") => is_enabled)
  /\ [][/\ (InitSucceeded /\ is_enabled /\ ~is_enabled')
            => th["main"].pc = "sd_flags"
        /\ \A t \in Threads :
             (th[t].op \in ApiOps /\ th[t].sawEnabled /\ DoesIO(t))
               => page_server_mutex.owner = t
        /\ \A t \in Threads :
             (th[t].op \in ApiOps /\ Returns(t) /\ th'[t].err = DB_ERROR)
               => th'[t].attempts = MAX_RETRIES + 1
      ]_vars

(***************************************************************************)
(* Properties of the server (SpecServer).                                  *)
(***************************************************************************)
\* connection c has answered a well-formed GetPage request for a page the
\* server does not hold
MissingPageAnswered(c) ==
  /\ srv[c].pc = "done"
  /\ srv[c].req.path = "/api/v1/get_page"
  /\ GetPageReject(srv[c].req) = NoResp
  /\ LET r == DecodeGetPageRequest(srv[c].req.body)
     IN PageKey(r.SpaceID, r.PageNo) \notin DOMAIN pages

C10_MissingPageResponse ==
  [][\A c \in SrvConns :
       /\ (srv[c].pc = "gp_respond" /\ srv'[c].pc = "done" /\ ~srv[c].exists)
            => /\ srv'[c].resp.code = StatusNotFound
               /\ srv'[c].resp.json
               /\ DOMAIN srv'[c].resp.body = {"status", "error"}
               /\ srv'[c].resp.body["status"] = "error"
               /\ srv'[c].resp.body["error"] =
                    <<"Page not found",
                      Member(srv[c].req.body, "space_id", 0),
                      Member(srv[c].req.body, "page_no", 0)>>
       /\ (srv'[c] # srv[c] /\ srv'[c].req.path = "/api/v1/get_page")
            => UNCHANGED <<pages, walRecords>>
    ]_vars

C10_Witness ==
  \E c \in SrvConns :
    /\ MissingPageAnswered(c)
    /\ srv[c].resp.code = StatusNotFound
    /\ srv[c].req.body = [json |-> TRUE]

(***************************************************************************)
(* Properties of GetPage on a stored page and of StreamWAL (SpecStore,     *)
(* SpecServer, SpecServerLive).                                            *)
(***************************************************************************)
\* connection c has answered a GetPage request with a success response
GetPageSucceeded(c) ==
  /\ srv[c].pc = "done"
  /\ srv[c].req.path = "/api/v1/get_page"
  /\ srv[c].resp.json
  /\ srv[c].resp.code = StatusOK
  /\ srv[c].resp.body["status"] = "success"

\* the lsn member of the request on connection c, as the handler decodes it
ReqLsn(c) == Member(srv[c].req.body, "lsn", 0)
\* the page_lsn a client decodes from the response on connection c
RespPageLsn(c) == Member(srv[c].resp.body, "page_lsn", 0)

StreamWALAcked(c) ==
  /\ srv[c].pc = "done"
  /\ srv[c].req.path = "/api/v1/stream_wal"
  /\ srv[c].resp.json
  /\ srv[c].resp.code = StatusOK
  /\ srv[c].resp.body["status"] = "success"

\* C12: once StreamWAL(lsn = 5, data = "Hi") for page 1:42 has been
\* acknowledged, a client that keeps polling GetPage(1, 42, 5) eventually
\* gets a success response with page_lsn = 5 and a page image.
C12_ReadAfterWrite ==
  \A c \in SrvConns :
    (/\ StreamWALAcked(c)
     /\ StreamWALRecord(srv[c].req) = WALRecord(5, <<72, 105>>, 1, 42))
      ~> (\E d \in SrvConns :
            /\ GetPageSucceeded(d)
            /\ srv[d].req = PolledRequest
            /\ RespPageLsn(d) = 5
            /\ Has(srv[d].resp.body, "page_data"))

\* the last_applied_lsn a client decodes from the response resp
RespLastApplied(resp) == Member(resp.body, "last_applied_lsn", 0)

\* connection c writes its StreamWAL response in this step
StreamWALResponds(c) == srv[c].pc = "wal_respond" /\ srv'[c].pc = "done"

\* C13: the last_applied_lsn values of successive StreamWAL responses never
\* decrease: a response written now reports at least what every response
\* written before it reported.
C13_WatermarkMonotone ==
  [][\A c, d \in SrvConns :
       StreamWALResponds(c) /\ StreamWALAcked(d)
         => RespLastApplied(srv'[c].resp) >= RespLastApplied(srv[d].resp)
    ]_vars

\* an upper bound of the applied watermark of the server with pages pgs and
\* WAL records wal: a record can have been applied only to a page the server
\* stores, so the bound is the highest LSN W of a received record such that
\* the pages of that record and of every received record with a smaller LSN
\* are stored; 0 when there is none
AppliedBound(pgs, wal) ==
  LET applied(rec) == PageKey(rec.SpaceID, rec.PageNo) \in DOMAIN pgs
      good == {W \in {wal[i].LSN : i \in 1..Len(wal)} :
                 \A i \in 1..Len(wal) : wal[i].LSN <= W => applied(wal[i])}
  IN IF good = {} THEN 0
     ELSE CHOOSE W \in good : \A V \in good : V <= W

\* C14: the last_applied_lsn of a StreamWAL response is truthful when the
\* response is written: it does not exceed the highest LSN W such that the
\* record with LSN W and every received record with a smaller LSN have been
\* applied to the stored pages.
C14_TruthfulWatermark ==
  [][\A c \in SrvConns :
       StreamWALResponds(c)
         => RespLastApplied(srv'[c].resp) <= AppliedBound(pages', walRecords')
    ]_vars

KeyRecords(wal, space_id, page_no) ==
  SelectSeq(wal, LAMBDA rec : rec.SpaceID = space_id /\ rec.PageNo = page_no)

\* C16: delivering the same WAL record twice is idempotent: the step that
\* stores a record the server already holds leaves the records of its page
\* and the pages as they are.
C16_DuplicateIdempotent ==
  [][\A c \in SrvConns :
       (/\ srv[c].pc = "wal_append"
        /\ srv'[c].pc = "wal_respond"
        /\ \E i \in 1..Len(walRecords) :
             walRecords[i] = StreamWALRecord(srv[c].req))
         => LET rec == StreamWALRecord(srv[c].req) IN
            /\ KeyRecords(walRecords', rec.SpaceID, rec.PageNo)
                 = KeyRecords(walRecords, rec.SpaceID, rec.PageNo)
            /\ pages' = pages
    ]_vars

\* connection c has completed the StreamWAL request that carries record rec
StreamWALDone(c, rec) ==
  /\ srv[c].pc = "done"
  /\ srv[c].req.path = "/api/v1/stream_wal"
  /\ StreamWALReject(srv[c].req) = NoResp
  /\ StreamWALRecord(srv[c].req) = rec

\* the LSN of the latest record the server holds for page
\* (space_id, page_no); 0 when it holds none
KeyLatestLsn(wal, space_id, page_no) ==
  LET recs == KeyRecords(wal, space_id, page_no)
  IN IF Len(recs) = 0 THEN 0 ELSE recs[Len(recs)].LSN

\* C17: once two StreamWAL requests for page 1:42 with the LSNs 5 and 6 have
\* both completed, in whichever order they arrived, both are acknowledged
\* and the latest version the server holds for the page has LSN 6.
C17_LatestIsHighest ==
  \A c, d \in SrvConns :
    (/\ StreamWALDone(c, WALRecord(5, <<72, 105>>, 1, 42))
     /\ StreamWALDone(d, WALRecord(6, <<72, 105>>, 1, 42)))
      => /\ StreamWALAcked(c)
         /\ StreamWALAcked(d)
         /\ KeyLatestLsn(walRecords, 1, 42) = 6

\* the well-formed GetPage requests
GetPageRequests ==
  {Request("POST", "/api/v1/get_page", b) : b \in GetPageBodies \ {BadBody}}

C19_GetPageReadOnly ==
  [][\A c \in SrvConns :
       (srv'[c] # srv[c] /\ srv'[c].req.path = "/api/v1/get_page")
         => /\ pages' = pages
            /\ walRecords' = walRecords
            /\ walMuOwner' = walMuOwner
            /\ srv'[c].pc = "done" => c \notin muReaders'
    ]_vars

C19_Witness ==
  \E c, d \in SrvConns :
    /\ GetPageSucceeded(c)
    /\ MissingPageAnswered(d)
    /\ srv[d].resp.code = StatusNotFound
    /\ Len(walRecords) = 1

\* the positions of record rec in the WAL record queue
Queued(rec) == {i \in 1..Len(walRecords) : walRecords[i] = rec}

\* C20: a StreamWAL success response is sent only after the record (lsn,
\* decoded wal_data, space_id, page_no) has been appended to the WAL record
\* queue: under every interleaving, each record is in the queue at least as
\* many times as it has been acknowledged or is about to be.
C20_AckAfterAppend ==
  \A c \in SrvConns :
    (srv[c].pc = "wal_respond" \/ StreamWALAcked(c))
      => LET rec == StreamWALRecord(srv[c].req) IN
         Cardinality({d \in SrvConns :
                        /\ srv[d].pc = "wal_respond" \/ StreamWALAcked(d)
                        /\ StreamWALRecord(srv[d].req) = rec})
           <= Cardinality(Queued(rec))

C20_Witness ==
  \E c, d \in SrvConns :
    /\ c # d
    /\ StreamWALAcked(c) /\ StreamWALAcked(d)
    /\ StreamWALRecord(srv[c].req) = WALRecord(5, <<72, 105>>, 1, 42)
    /\ StreamWALRecord(srv[d].req) = WALRecord(0, <<>>, 0, 0)
    /\ walRecords = <<StreamWALRecord(srv[c].req), StreamWALRecord(srv[d].req)>>

\* a StreamWAL request with a wrong method, a body that is not JSON or a
\* wal_data that is not base64
MalformedStreamWAL(req) ==
  /\ req.path = "/api/v1/stream_wal"
  /\ \/ req.method # "POST"
     \/ ~req.body.json
     \/ ~StdDecodable(Member(req.body, "wal_data", <<>>))

\* C21: a StreamWAL request rejected as malformed or for a wrong method is
\* answered in the step it arrives with an error response (405 for the
\* method, 400 otherwise) that reports no watermark, and appends no WAL
\* record and modifies no page.
C21_RejectedStreamWAL ==
  [][\A c \in SrvConns :
       (srv'[c] # srv[c] /\ MalformedStreamWAL(srv'[c].req))
         => /\ srv'[c].pc = "done"
            /\ srv'[c].resp.code
                 = (IF srv'[c].req.method # "POST"
                      THEN StatusMethodNotAllowed ELSE StatusBadRequest)
            /\ ~srv'[c].resp.json
            /\ ~Has(srv'[c].resp.body, "last_applied_lsn")
            /\ walRecords' = walRecords
            /\ pages' = pages
    ]_vars

C21_Witness ==
  \E c, d \in SrvConns :
    /\ srv[c].pc = "done"
    /\ srv[c].req = Request("POST", "/api/v1/stream_wal",
                            [json |-> TRUE, lsn |-> 0, wal_data |-> <<18, 6>>])
    /\ srv[c].resp.code = StatusBadRequest
    /\ srv[d].pc = "done"
    /\ srv[d].req = Request("GET", "/api/v1/stream_wal", BadBody)
    /\ srv[d].resp.code = StatusMethodNotAllowed
    /\ Len(walRecords) = 1

\* the server's whole handling of a Ping request arriving on connection c
PingServed(c) ==
  /\ Serve(c)
  /\ srv'[c].req = PingRequest
  /\ srv'[c].pc = "done"
  /\ srv'[c].resp = JsonResponse(StatusOK, [status |-> "ok", version |-> "1.0.0"])

\* C24: in every reachable state, whoever holds or waits for the page lock
\* or the WAL lock, a Ping arriving on a free connection is answered at once
\* with status "ok" and a version; and every step that handles a Ping
\* request answers it, acquires neither lock and changes no server state.
C24_PingAlwaysAnswers ==
  /\ [](\A c \in SrvConns :
          srv[c].pc \in {"idle", "done"} => ENABLED PingServed(c))
  /\ [][\A c \in SrvConns :
          (srv'[c] # srv[c] /\ srv'[c].req.path = "/api/v1/ping")
            => /\ srv'[c].pc = "done"
               /\ srv'[c].req.method = "GET"
                    => srv'[c].resp = JsonResponse(StatusOK,
                                        [status |-> "ok", version |-> "1.0.0"])
               /\ UNCHANGED <<pages, walRecords, muReaders, walMuOwner>>
               /\ \A d \in SrvConns \ {c} : srv'[d] = srv[d]
      ]_vars

C24_Witness ==
  \E c, d \in SrvConns :
    /\ srv[c].pc = "done"
    /\ srv[c].req = PingRequest
    /\ srv[c].resp.code = StatusOK
    /\ srv[d].pc = "wal_append"
    /\ walMuOwner = d

\* connection c is inside handleGetPage
InGetPage(c) == srv[c].pc \in {"gp_rlock", "gp_read", "gp_respond"}

\* C26: GetPage handling never waits on WAL ingestion: in every reachable
\* state each GetPage being handled can take its next step, whichever
\* connections hold or wait for the WAL lock or hold the read lock of the
\* page map; and the steps of a GetPage touch only the read lock, never the
\* WAL lock, and no other connection.
C26_GetPageNeverWaits ==
  /\ [](\A c \in SrvConns :
          InGetPage(c)
            => ENABLED (GetPageRLock(c) \/ GetPageRead(c) \/ GetPageRespond(c)))
  /\ [][\A c \in SrvConns :
          (InGetPage(c) /\ srv'[c] # srv[c])
            => /\ walMuOwner' = walMuOwner
               /\ walMuOwner # c
               /\ muReaders' \ {c} = muReaders \ {c}
               /\ \A d \in SrvConns \ {c} : srv'[d] = srv[d]
      ]_vars

C26_Witness ==
  \E c, d \in SrvConns :
    /\ srv[c].pc = "gp_read"
    /\ c \in muReaders
    /\ walMuOwner = d
    /\ srv[d].pc = "wal_append"

(***************************************************************************)
(* Properties of the client's base64 functions (SpecCodec).                *)
(***************************************************************************)
\* C22: for every byte sequence b of length 0 up to the page size,
\* base64_decode(base64_encode(b)) returns Len(b) and writes exactly the
\* bytes of b.
C22_Base64RoundTrip ==
  \A t \in Threads :
    th[t].pc = "b64_done"
      => /\ th[t].ret = Len(th[t].args.data)
         /\ th[t].buf = th[t].args.data

C33_ErrorLeavesOutputs ==
  \A t \in Threads :
    (th[t].op = "get_page" /\ th[t].pc = "unlock" /\ th[t].ret # DB_SUCCESS)
      => /\ th[t].buf = th[t].args.buf
         /\ th[t].page_lsn = th[t].args.page_lsn

C33_Witness ==
  \E t \in Threads :
    /\ th[t].op = "get_page" /\ th[t].pc = "unlock" /\ th[t].ret = DB_ERROR
    /\ th[t].resp.code = StatusOK
    /\ Has(th[t].resp.body, "page_data")
    /\ th[t].resp.body["page_data"] = <<Pad, Pad, Pad, Pad>>
    /\ th[t].args.buf = [i \in 1..PageSize |-> 170]

(***************************************************************************)
(* Properties of the bytes of a stream_wal request (SpecWire).             *)
(***************************************************************************)
\* C35: a stream_wal request on the wire carries its complete body: the
\* bytes sent are the headers and Content-Length bytes of body, all of them
\* from the request buffer, and Content-Length is the length of the full
\* JSON body, which holds the whole base64 text of the wal_len bytes.
C35_CompleteBody ==
  \A t \in Threads :
    th[t].pc = "wire_sent"
      => LET a == th[t].args IN
         /\ a.b64 = FullEncodedLen(a.wal_len)
         /\ a.content_length = StreamWalBodyLen(a.lsn, FullEncodedLen(a.wal_len))
         /\ a.sent = a.header + a.content_length
         /\ a.sent <= a.held

=============================================================================
